---- MODULE Spec2Model ----
(***************************************************************************)
(* The real-time message pipeline of LinkLanka: the Transport Gateway      *)
(* (ChatGateway), the audio ingestion route (AudioController), the Message *)
(* Store (ChatService) and group membership (GroupsService).               *)
(*                                                                         *)
(* Every handler is an async function.  A handler is modelled as a         *)
(* sequence of steps, one per awaited operation: a step runs the           *)
(* synchronous code that follows the previous await and then performs the  *)
(* next awaited store operation atomically.  Steps of handlers running on  *)
(* different connections interleave freely.                                *)
(***************************************************************************)
EXTENDS Integers, Sequences, FiniteSets, TLC

\* ---------------------------------------------------------------- bounds
\* Number of message rows the store ever inserts (submission, deletion).
MaxMsgs == 2
\* Number of message rows the store ever inserts in the specifications whose
\* handlers take many steps (editing, the whole pipeline).
MaxMsgsDeep == 1
\* Number of times the wall clock advances.
MaxTicks == 2

\* ------------------------------------------------------ program constants
\* 15 * 60 * 1000 ms, in minutes.
EditWindowMinutes == 15
\* trimmed.length > 2000
MaxEditLength == 2000
\* confidenceScore <= 5
InaudibleMaxScore == 5

\* ------------------------------------------------------------- universe
Users == {"u1", "u2"}
Rooms == {"r1", "r2"}
\* One authenticated socket per user.
Conns == {"c1", "c2"}
UserOf(c) == IF c = "c1" THEN "u1" ELSE "u2"

\* Steps by which the clock advances (minutes): a message's age is 0, exactly
\* the edit window, or beyond it.
TickSteps == {EditWindowMinutes}

\* An optional value: the empty set is null / undefined.
None == {}
Some(x) == {x}
The(o) == CHOOSE x \in o : TRUE

\* ----------------------------------------------------------------- text
\* A string is a sequence of runs <<text, length>>: a run is whitespace or
\* holds none, and length is its number of characters.
Str(piece, n) == << <<piece, n>> >>
Blank == Str(" ", 1)
Empty == << >>

IsSpace(run) == run[1] = " "

RECURSIVE TrimStart(_)
TrimStart(t) ==
    IF t = << >> THEN t
    ELSE IF IsSpace(Head(t)) THEN TrimStart(Tail(t)) ELSE t

RECURSIVE TrimEnd(_)
TrimEnd(t) ==
    IF t = << >> THEN t
    ELSE IF IsSpace(t[Len(t)]) THEN TrimEnd(SubSeq(t, 1, Len(t) - 1)) ELSE t

\* String.prototype.trim
Trim(t) == TrimEnd(TrimStart(t))

RECURSIVE StrLen(_)
\* String.prototype.length
StrLen(t) == IF t = << >> THEN 0 ELSE Head(t)[2] + StrLen(Tail(t))

\* A payload field: a string or undefined (any non-string value).
Undefined == [type |-> "undefined"]
S(t) == [type |-> "string", val |-> t]
IsString(v) == v.type = "string"
\* a ?? b
Nullish(a, b) == IF a = Undefined THEN b ELSE a
\* A check of the type alone, which lets blank strings through.
NotNonBlankString_TypeOnly(v) == ~IsString(v)
\* typeof v !== 'string' || v.trim().length === 0
NotNonBlankString(v) == ~IsString(v) \/ StrLen(Trim(v.val)) = 0

\* Room ids on the wire are strings; a room id names a room when its text
\* is that room's name.
RoomText(r) == Str(r, 2)
RoomIds == {RoomText(r) : r \in Rooms}

\* --------------------------------------------------------------- state
VARIABLES
    members,    \* group_members rows: [groupId, userId, role]
    joined,     \* socket.io rooms: set of <<connection, room id>>
    msgs,       \* messages table: id -> row
    nextId,     \* next primary key the store generates
    clock,      \* Date.now(), in minutes
    ticks,      \* number of clock advances so far
    req,        \* per connection: the handler invocation in flight
    lastEmit,   \* events emitted by the last step, in order
    bcast,      \* history: message id -> number of newMessage broadcasts
    accepted,   \* history: submissions that passed mediation
    capacity,   \* number of rows the store may ever insert
    pushTokens, \* users.expoPushToken: user -> optional address
    fanout,     \* message id -> the sendChatNotification call in flight for it
    pushed,     \* history: batches posted to the push provider
    sock,       \* per connection: handshake, lifecycle state, client.user
    dict,       \* PersonalContextService: entries, cache and calls in flight
    screen,     \* ChatScreen of the local user: list, modes, rollback snapshot
    recorder,   \* ChatInput: the recording and its handlers in flight
    refine,     \* MagicRefineModal: requests in flight and what is displayed
    groups      \* chat_groups rows and the GroupsService calls in flight

vars == <<members, joined, msgs, nextId, clock, ticks, req, lastEmit, bcast, accepted,
          capacity, pushTokens, fanout, pushed, sock, dict, screen, recorder, refine,
          groups>>

\* The mobile client's components.
clientVars == <<screen, recorder, refine>>
\* Everything the API server holds, besides the dictionary service.
serverVars == <<members, joined, msgs, nextId, clock, ticks, req, lastEmit, bcast, accepted,
                capacity, pushTokens, fanout, pushed, sock, groups>>

Idle == [op |-> "idle"]

Member(g, u, role) == [groupId |-> g, userId |-> u, role |-> role]

\* A membership lookup that ignores the user.
isMember_AnyUser(groupId, userId) ==
    \E m \in members : m.groupId = groupId

\* GroupsService.isMember
isMember(groupId, userId) ==
    \E m \in members : m.groupId = groupId /\ m.userId = userId

\* GroupsService.assertAdmin succeeds
isAdmin(groupId, userId) ==
    \E m \in members : m.groupId = groupId /\ m.userId = userId /\ m.role = "admin"

\* Connections currently in the multicast group of room id g.
SocketsIn(g) == {c \in Conns : <<c, g>> \in joined}

\* client.emit(ev, payload)
ToClient(c, ev, payload) == [ev |-> ev, to |-> {c}, room |-> None, data |-> payload]
\* A broadcast addressed to a room name that no connection has joined.
ToRoom_Nobody(g, ev, payload) == [ev |-> ev, to |-> {}, room |-> Some(g), data |-> payload]
\* server.to(g).emit(ev, payload)
ToRoom(g, ev, payload) == [ev |-> ev, to |-> SocketsIn(g), room |-> Some(g), data |-> payload]
\* WsAllExceptionsFilter.catch for a WsException carrying a string
WsError(c, message) ==
    ToClient(c, "error", [status |-> "BAD_REQUEST", message |-> message])

\* ------------------------------------------------- the screen's socket
\* The connection and the user of the mobile client whose ChatScreen is
\* modelled.
LocalConn == "c1"
LocalUser == UserOf(LocalConn)
\* An event reaches the screen's socket.io client (responses of REST
\* routes do not travel on the socket).
ForScreen(e) == e.ev # "http" /\ LocalConn \in e.to
\* The screen after the server emitted `events`: those addressed to its
\* socket wait in the receive queue until their listeners run.
Deliver(events) ==
    IF screen.listening
    THEN [screen EXCEPT !.inbox = @ \o SelectSeq(events, ForScreen)]
    ELSE screen
\* socket.emit(ev, payload) on the screen.
Emission(ev, payload) == [ev |-> ev, payload |-> payload]
\* The screen after the server began to handle (ev, payload) from
\* connection c and emitted `events`: the request leaves the queue of what
\* the screen's socket has sent.
Take(c, ev, payload, events) ==
    LET s == Deliver(events)
    IN  IF screen.listening /\ c = LocalConn /\ screen.outbox # << >>
           /\ Head(screen.outbox) = Emission(ev, payload)
        THEN [s EXCEPT !.outbox = Tail(@)]
        ELSE s

\* ------------------------------------------------- socket connections
\* A signed credential naming user u, and one whose signature fails.
Jwt(u) == << <<"jwt", 3>>, <<u, 2>> >>
Forged == Str("forged", 6)
Bearer == << <<"Bearer", 6>>, <<" ", 1>> >>

\* client.handshake: the auth object's token, the query parameter and the
\* Authorization header.
Handshake(auth, query, header) == [auth |-> auth, query |-> query, header |-> header]

\* normalizeToken: a leading 'Bearer ' is cut off and the rest trimmed.
normalizeToken(value) ==
    IF Len(value) >= Len(Bearer) /\ SubSeq(value, 1, Len(Bearer)) = Bearer
    THEN Trim(SubSeq(value, Len(Bearer) + 1, Len(value)))
    ELSE value

\* An extraction that looks at the auth object only.

\* extractToken: auth object, then query parameter, then header.
extractToken(handshake) ==
    IF ~NotNonBlankString(handshake.auth) THEN Some(normalizeToken(handshake.auth.val))
    ELSE IF ~NotNonBlankString(handshake.query) THEN Some(normalizeToken(handshake.query.val))
    ELSE IF ~NotNonBlankString(handshake.header) THEN Some(normalizeToken(handshake.header.val))
    ELSE None

\* if (!token): null or the empty string
NoToken(token) == token = None \/ The(token) = Empty

\* jwtService.verifyAsync: the payload of a credential that verifies.
verifyAsync(token) == {u \in Users : token = Jwt(u)}

\* The socket is connected: its events are dispatched to the handlers.
Connected(c) == sock[c].state \in {"verifying", "open"}

\* The state of a socket whose handshake succeeded.
Established(c) ==
    [handshake |-> Handshake(S(Jwt(UserOf(c))), Undefined, Undefined),
     state |-> "open", user |-> Some(UserOf(c))]
\* A socket that has not connected yet.
Unconnected == [handshake |-> Handshake(Undefined, Undefined, Undefined),
                state |-> "new", user |-> None]

\* ChatGateway.handleConnection up to jwtService.verifyAsync: without a
\* token the socket is disconnected at once.
HandleConnection(c, handshake) ==
    /\ sock[c].state = "new"
    /\ sock' = [sock EXCEPT ![c] =
                  [handshake |-> handshake, user |-> None,
                   state |-> IF NoToken(extractToken(handshake)) THEN "closed" ELSE "verifying"]]
    /\ lastEmit' = << >>
    /\ screen' = Deliver(lastEmit')
    /\ UNCHANGED <<groups, dict, recorder, refine, pushTokens, fanout, pushed, members, joined, msgs, nextId, clock, ticks, req, bcast, accepted, capacity>>

\* ChatGateway.handleConnection: verifyAsync settles; the payload is
\* attached, or the socket is disconnected and leaves its rooms.
HandleConnectionVerify(c) ==
    LET payload == verifyAsync(The(extractToken(sock[c].handshake)))
    IN  /\ sock[c].state = "verifying"
        /\ IF payload = None
           THEN /\ sock' = [sock EXCEPT ![c].state = "closed"]
                /\ joined' = {j \in joined : j[1] # c}
           ELSE /\ sock' = [sock EXCEPT ![c].state = "open", ![c].user = payload]
                /\ joined' = joined
        /\ lastEmit' = << >>
        /\ screen' = Deliver(lastEmit')
        /\ UNCHANGED <<groups, dict, recorder, refine, pushTokens, fanout, pushed, members, msgs, nextId, clock, ticks, req, bcast, accepted, capacity>>

\* A guard that lets every connected socket through.
WsJwtGuard_Connected(c) == Connected(c)

\* WsJwtGuard.canActivate returns true: the socket's token verifies.
WsJwtGuard(c) ==
    /\ Connected(c)
    /\ ~NoToken(extractToken(sock[c].handshake))
    /\ verifyAsync(The(extractToken(sock[c].handshake))) # None

\* WsJwtGuard.canActivate: client.user = payload
Attached(c) ==
    [sock EXCEPT ![c].user = IF NoToken(extractToken(sock[c].handshake)) THEN None
                             ELSE verifyAsync(The(extractToken(sock[c].handshake)))]

GuardedEvents == {"sendMessage", "editMessage", "deleteMessages"}

\* WsJwtGuard.canActivate throws: the handler of the event does not run and
\* the exception filter answers the socket.
GuardReject(c, event) ==
    /\ Connected(c)
    /\ req[c] = Idle
    /\ ~WsJwtGuard(c)
    /\ lastEmit' = <<WsError(c, IF NoToken(extractToken(sock[c].handshake))
                                THEN "Missing token" ELSE "Invalid token")>>
    /\ screen' = Deliver(lastEmit')
    /\ UNCHANGED <<groups, sock, dict, recorder, refine, pushTokens, fanout, pushed, members, joined, msgs, nextId, clock, ticks, req, bcast, accepted, capacity>>

\* -------------------------------------------------------- initial state
DictInit ==
    [rows |-> {}, cache |-> [u \in Users |-> None], calls |-> {}, nextEntry |-> 1,
     writes |-> 0, gets |-> 0, returned |-> None]
\* The screen is not mounted: nothing listens on the socket.
ScreenInit ==
    [listening |-> FALSE, messages |-> << >>, selectionMode |-> FALSE,
     selectedIds |-> {}, editingMessageId |-> None, editOriginalRef |-> None,
     uuids |-> 0, inbox |-> << >>, outbox |-> << >>, sentEdits |-> << >>,
     history |-> [pc |-> "done", data |-> << >>]]
\* The chat input is not mounted.
RecorderInit == [mounted |-> FALSE]
RefineInit ==
    [visible |-> FALSE, isAnimatingOut |-> FALSE, selectedMode |-> None,
     refinedText |-> None, error |-> None, isLoading |-> FALSE,
     abortController |-> None, requests |-> {}, issued |-> 0, closed |-> {},
     replaced |-> None]

\* u1 administers r1, which u2 has joined; u2 administers r2, where u1 has
\* no membership.
\* The two rooms are group chats; no DM exists and no call is in flight.
GroupsInit ==
    [rows |-> {[id |-> Str(r, 2), isGroup |-> TRUE] : r \in Rooms}, calls |-> {},
     created |-> 0, issued |-> 0]

InitialMembers ==
    {Member(RoomText("r1"), "u1", "admin"),
     Member(RoomText("r1"), "u2", "member"),
     Member(RoomText("r2"), "u2", "admin")}

\* The API server after start-up, with the given sockets.
InitServer(rows, sockets) ==
    /\ capacity = rows
    /\ sock = sockets
    /\ pushTokens = [u \in Users |-> None]
    /\ fanout = << >>
    /\ pushed = {}
    /\ members = InitialMembers
    /\ groups = GroupsInit
    /\ joined = {}
    /\ msgs = << >>
    /\ nextId = 1
    /\ clock = 0
    /\ ticks = 0
    /\ req = [c \in Conns |-> Idle]
    /\ lastEmit = << >>
    /\ bcast = [i \in {} |-> 0]
    /\ accepted = 0

\* The server with the chat screen in the given state.
InitAll(rows, sockets, scr) ==
    /\ InitServer(rows, sockets)
    /\ dict = DictInit
    /\ screen = scr
    /\ recorder = RecorderInit
    /\ refine = RefineInit

\* The chat screen is not mounted.
InitOf(rows, sockets) == InitAll(rows, sockets, ScreenInit)

\* Every socket has completed its handshake.
InitWith(rows) == InitOf(rows, [c \in Conns |-> Established(c)])

Init == InitWith(MaxMsgs)

\* Time passes.
Tick ==
    /\ ticks < MaxTicks
    /\ \E d \in TickSteps : clock' = clock + d
    /\ ticks' = ticks + 1
    /\ lastEmit' = << >>
    /\ screen' = Deliver(lastEmit')
    /\ UNCHANGED <<groups, sock, dict, recorder, refine, pushTokens, fanout, pushed, members, joined, msgs, nextId, req, bcast, accepted, capacity>>

\* ------------------------------------------------------- GroupsService
\* GroupsService.removeMember
RemoveMember(requesterId, g, targetUserId) ==
    /\ requesterId # targetUserId => isAdmin(g, requesterId)
    /\ isMember(g, targetUserId)
    /\ members' = {m \in members : ~(m.groupId = g /\ m.userId = targetUserId)}
    /\ lastEmit' = << >>
    /\ screen' = Deliver(lastEmit')
    /\ UNCHANGED <<groups, sock, dict, recorder, refine, pushTokens, fanout, pushed, joined, msgs, nextId, clock, ticks, req, bcast, accepted, capacity>>

\* u2 leaves r1, or its admin u1 removes u2.
RemoveInputs == {<<"u2", RoomText("r1"), "u2">>, <<"u1", RoomText("r1"), "u2">>}

\* ------------------------------------------------------------ joinRoom
JoinPayloads ==
    {[groupId |-> S(g), group_id |-> Undefined] : g \in RoomIds}
    \cup {[groupId |-> Undefined, group_id |-> S(RoomText("r1"))],
          [groupId |-> Undefined, group_id |-> Undefined],
          [groupId |-> S(Blank), group_id |-> S(RoomText("r1"))]}

\* ChatGateway.joinRoom up to the membership check.
JoinRoomCheck(c, payload) ==
    LET groupIdValue == Nullish(payload.groupId, payload.group_id)
        userId == UserOf(c)
    IN  /\ req[c] = Idle
        /\ Connected(c)
        /\ IF NotNonBlankString(groupIdValue)
           THEN /\ lastEmit' = <<WsError(c, "Invalid payload")>>
                /\ req' = req
           ELSE IF sock[c].user = None
           THEN /\ lastEmit' = <<WsError(c, "Unauthorized")>>
                /\ req' = req
           ELSE IF ~isMember(groupIdValue.val, userId)
           THEN /\ lastEmit' = <<WsError(c, "Forbidden")>>
                /\ req' = req
           ELSE /\ lastEmit' = << >>
                /\ req' = [req EXCEPT ![c] =
                             [op |-> "join", pc |-> "join", groupId |-> groupIdValue.val]]
        /\ screen' = Take(c, "joinRoom", payload, lastEmit')
        /\ UNCHANGED <<groups, sock, dict, recorder, refine, pushTokens, fanout, pushed, members, joined, msgs, nextId, clock, ticks, bcast, accepted, capacity>>

\* ChatGateway.joinRoom: client.join and the roomJoined acknowledgment.
JoinRoomJoin(c) ==
    /\ req[c].op = "join"
    /\ joined' = joined \cup {<<c, req[c].groupId>>}
    /\ lastEmit' = <<ToClient(c, "roomJoined", [joinedGroupId |-> req[c].groupId])>>
    /\ req' = [req EXCEPT ![c] = Idle]
    /\ screen' = Deliver(lastEmit')
    /\ UNCHANGED <<groups, sock, dict, recorder, refine, pushTokens, fanout, pushed, members, msgs, nextId, clock, ticks, bcast, accepted, capacity>>

\* -------------------------------------------------------- Message Store
\* MessageContentType
ContentTypes == {"TEXT", "AUDIO", "IMAGE", "DOCUMENT"}
TypeText(ct) == Str(ct, 4)

\* ChatService.saveMessage: the row it inserts under the generated key.
\* Optional columns are set only when the argument is not null.
saveMessage(id, userId, groupId, contentType, rawContent, transcription, translations, confidenceScore) ==
    [id |-> id, senderId |-> userId, groupId |-> groupId,
     contentType |-> contentType, rawContent |-> rawContent,
     transcription |-> transcription, translations |-> translations,
     confidenceScore |-> confidenceScore,
     isEdited |-> FALSE, createdAt |-> clock]

\* Primary keys are strings (uuid); the store generates them in this order.
IdNames == <<"m1", "m2", "m3", "m4">>
Id(n) == Str(IdNames[n], 36)
MsgIds == {Id(n) : n \in 1..MaxMsgs}

\* Repository.save of a new entity: a fresh primary key.
GeneratedId == Id(nextId)

\* The table with row m inserted (or replaced) under m.id.
Upsert(table, m) ==
    [i \in DOMAIN table \cup {m.id} |-> IF i = m.id THEN m ELSE table[i]]

\* The history counter h with one more for key k.
Count(h, k) ==
    [i \in DOMAIN h \cup {k} |-> IF i = k THEN (IF k \in DOMAIN h THEN h[k] ELSE 0) + 1 ELSE h[i]]

\* Submissions that will still insert a row.
PendingInserts ==
    {c \in Conns : req[c].op \in {"send", "audio"} /\ req[c].pc \in {"translate", "save"}}
\* The store has room for one more row.
CanSubmit == (nextId - 1) + Cardinality(PendingInserts) < capacity

\* ----------------------------------------------------- Language Mediator
\* TranslationService.translateIntent: what a successful call returns for
\* text or media input.  The renderings are derived from the input.
MediateText(input) ==
    [transcription |-> Some(input), translations |-> Some([src |-> input]),
     confidenceScore |-> 90]

\* What a successful call may return for a recording.
AudioResults(input) ==
    {[transcription |-> Some(tr), translations |-> Some([src |-> input]),
      confidenceScore |-> sc] :
        tr \in {Empty, Blank, Str("hi", 2)}, sc \in {0, 3, 5, 6}}

\* --------------------------------------------------------- sendMessage
FileUrl == Str("/uploads/f.png", 14)

SendPayload(g, ct, raw, audio, url) ==
    [groupId |-> g, group_id |-> Undefined, contentType |-> ct,
     content_type |-> Undefined, rawContent |-> raw, raw_content |-> Undefined,
     audioBase64 |-> audio, audioMimeType |-> Undefined, fileUrl |-> url]

SendPayloads ==
    {SendPayload(S(g), S(TypeText("TEXT")), S(Str("a", 1)), Undefined, Undefined) :
        g \in RoomIds}
    \cup {SendPayload(S(RoomText("r1")), S(TypeText("IMAGE")), Undefined, Undefined, S(FileUrl)),
          SendPayload(S(RoomText("r1")), S(TypeText("AUDIO")), Undefined, S(Str("AAAA", 4)), Undefined),
          SendPayload(S(RoomText("r1")), S(TypeText("AUDIO")), Undefined, Undefined, Undefined),
          SendPayload(Undefined, S(TypeText("TEXT")), S(Str("a", 1)), Undefined, Undefined),
          SendPayload(S(RoomText("r1")), S(Str("VIDEO", 5)), S(Str("a", 1)), Undefined, Undefined),
          SendPayload(S(RoomText("r1")), S(TypeText("TEXT")), S(Blank), Undefined, Undefined),
          SendPayload(S(RoomText("r1")), S(TypeText("IMAGE")), Undefined, Undefined, Undefined)}

\* ChatGateway.normalizeSendMessagePayload: the reason it throws, or "ok".
normalizeSendMessagePayload(payload) ==
    LET groupIdValue == Nullish(payload.groupId, payload.group_id)
        contentTypeValue == Nullish(payload.contentType, payload.content_type)
        rawContentValue == Nullish(payload.rawContent, payload.raw_content)
        isType(ct) == contentTypeValue = S(TypeText(ct))
        isAudio == isType("AUDIO")
        isMedia == isType("IMAGE") \/ isType("DOCUMENT")
    IN  IF NotNonBlankString(groupIdValue) THEN "Invalid payload: groupId"
        ELSE IF ~\E ct \in ContentTypes : isType(ct) THEN "Invalid payload: contentType"
        ELSE IF isAudio /\ NotNonBlankString(payload.audioBase64)
             THEN "Invalid payload: audioBase64"
        ELSE IF isMedia /\ NotNonBlankString(payload.fileUrl)
             THEN "Invalid payload: fileUrl"
        ELSE IF ~isAudio /\ ~isMedia /\ NotNonBlankString(rawContentValue)
             THEN "Invalid payload: rawContent"
        ELSE IF payload.audioMimeType # Undefined /\ ~IsString(payload.audioMimeType)
             THEN "Invalid payload: audioMimeType"
        ELSE "ok"

\* The content type a valid payload names.
PayloadType(payload) ==
    CHOOSE ct \in ContentTypes :
        Nullish(payload.contentType, payload.content_type) = S(TypeText(ct))

\* A handler that takes AUDIO on like TEXT, mediating the recording.
SendMessageBegin_AcceptAudio(c, payload) ==
    LET problem == normalizeSendMessagePayload(payload)
        rawContentValue == Nullish(payload.rawContent, payload.raw_content)
    IN  /\ req[c] = Idle
        /\ WsJwtGuard(c)
        /\ sock' = Attached(c)
        /\ problem = "ok" => CanSubmit
        /\ IF problem # "ok"
           THEN /\ lastEmit' = <<WsError(c, problem)>>
                /\ req' = req
           ELSE /\ lastEmit' = << >>
                /\ req' = [req EXCEPT ![c] =
                     [op |-> "send", pc |-> "translate",
                      groupId |-> Nullish(payload.groupId, payload.group_id).val,
                      contentType |-> PayloadType(payload),
                      rawContent |-> IF IsString(rawContentValue)
                                     THEN Some(rawContentValue.val)
                                     ELSE IF IsString(payload.audioBase64)
                                     THEN Some(payload.audioBase64.val) ELSE None,
                      fileUrl |-> IF IsString(payload.fileUrl)
                                  THEN Some(payload.fileUrl.val) ELSE None]]
        /\ screen' = Take(c, "sendMessage", payload, lastEmit')
        /\ UNCHANGED <<groups, dict, recorder, refine, pushTokens, fanout, pushed, members, joined, msgs, nextId, clock, ticks, bcast, accepted, capacity>>

\* ChatGateway.sendMessage up to the dispatch to the Language Mediator.
SendMessageBegin(c, payload) ==
    LET problem == normalizeSendMessagePayload(payload)
        rawContentValue == Nullish(payload.rawContent, payload.raw_content)
    IN  /\ req[c] = Idle
        /\ WsJwtGuard(c)
        /\ sock' = Attached(c)
        /\ (problem = "ok" /\ PayloadType(payload) # "AUDIO") => CanSubmit
        /\ IF problem # "ok"
           THEN /\ lastEmit' = <<WsError(c, problem)>>
                /\ req' = req
           ELSE IF PayloadType(payload) = "AUDIO"
           THEN /\ lastEmit' = <<ToClient(c, "messageFailed", [reason |-> "Please update your app"]),
                                 WsError(c, "AUDIO not accepted on WebSocket")>>
                /\ req' = req
           ELSE /\ lastEmit' = << >>
                /\ req' = [req EXCEPT ![c] =
                     [op |-> "send", pc |-> "translate",
                      groupId |-> Nullish(payload.groupId, payload.group_id).val,
                      contentType |-> PayloadType(payload),
                      rawContent |-> IF IsString(rawContentValue)
                                     THEN Some(rawContentValue.val) ELSE None,
                      fileUrl |-> IF IsString(payload.fileUrl)
                                  THEN Some(payload.fileUrl.val) ELSE None]]
        /\ screen' = Take(c, "sendMessage", payload, lastEmit')
        /\ UNCHANGED <<groups, dict, recorder, refine, pushTokens, fanout, pushed, members, joined, msgs, nextId, clock, ticks, bcast, accepted, capacity>>

\* A handler that goes on to the broadcast without awaiting the save.
SendTranslateOk_BroadcastFirst(c) ==
    LET r == req[c]
        result == MediateText(The(r.rawContent))
    IN  /\ r.op = "send" /\ r.pc = "translate"
        /\ req' = [req EXCEPT ![c] = [r EXCEPT !.pc = "broadcast"]
                     @@ [result |-> result, messageId |-> GeneratedId]]
        /\ accepted' = accepted + 1
        /\ lastEmit' = << >>
        /\ screen' = Deliver(lastEmit')
        /\ UNCHANGED <<groups, sock, dict, recorder, refine, pushTokens, fanout, pushed, members, joined, msgs, nextId, clock, ticks, bcast, capacity>>

\* ChatGateway.sendMessage: translateIntent returns.
SendTranslateOk(c) ==
    LET r == req[c]
        isMedia == r.contentType \in {"IMAGE", "DOCUMENT"}
        result == MediateText(IF isMedia THEN The(r.fileUrl) ELSE The(r.rawContent))
    IN  /\ r.op = "send" /\ r.pc = "translate"
        /\ req' = [req EXCEPT ![c] = [r EXCEPT !.pc = "save"] @@ [result |-> result]]
        /\ accepted' = accepted + 1
        /\ lastEmit' = << >>
        /\ screen' = Deliver(lastEmit')
        /\ UNCHANGED <<groups, sock, dict, recorder, refine, pushTokens, fanout, pushed, members, joined, msgs, nextId, clock, ticks, bcast, capacity>>

\* ChatGateway.sendMessage: translateIntent throws; the exception filter
\* reports an internal error to the sender.
SendTranslateFail(c) ==
    /\ req[c].op = "send" /\ req[c].pc = "translate"
    /\ req' = [req EXCEPT ![c] = Idle]
    /\ lastEmit' = <<ToClient(c, "error", [status |-> "INTERNAL_ERROR",
                                           message |-> "Internal server error"])>>
    /\ screen' = Deliver(lastEmit')
    /\ UNCHANGED <<groups, sock, dict, recorder, refine, pushTokens, fanout, pushed, members, joined, msgs, nextId, clock, ticks, bcast, accepted, capacity>>

\* ChatGateway.sendMessage: chatService.saveMessage.
SendSave(c) ==
    LET r == req[c]
        isMedia == r.contentType \in {"IMAGE", "DOCUMENT"}
        rawContentToSave == IF isMedia THEN The(r.fileUrl) ELSE The(r.rawContent)
        message == saveMessage(GeneratedId, UserOf(c), r.groupId, r.contentType,
                               rawContentToSave, r.result.transcription,
                               r.result.translations, Some(r.result.confidenceScore))
    IN  /\ r.op = "send" /\ r.pc = "save"
        /\ msgs' = Upsert(msgs, message)
        /\ nextId' = nextId + 1
        /\ req' = [req EXCEPT ![c] = [r EXCEPT !.pc = "broadcast"] @@ [messageId |-> message.id]]
        /\ lastEmit' = << >>
        /\ screen' = Deliver(lastEmit')
        /\ UNCHANGED <<groups, sock, dict, recorder, refine, pushTokens, fanout, pushed, members, joined, clock, ticks, bcast, accepted, capacity>>

\* The sendChatNotification call started for a message: its arguments and
\* its position.
NotifyTask(groupId, senderId, translations, fallbackText) ==
    [pc |-> "members", groupId |-> groupId, senderId |-> senderId,
     translations |-> translations, fallbackText |-> fallbackText]
\* this.sendChatNotification(...).catch(...): the call is started and not
\* awaited.
Started(tasks, messageId, task) ==
    [i \in DOMAIN tasks \cup {messageId} |-> IF i = messageId THEN task ELSE tasks[i]]
\* a ?? b ?? '' over optional texts
FirstText(a, b) == IF a # None THEN The(a) ELSE IF b # None THEN The(b) ELSE Empty

\* The newMessage payload.
NewMessage(messageId, senderId, contentType, result) ==
    [messageId |-> messageId, senderId |-> senderId, contentType |-> contentType,
     translations |-> result.translations, confidenceScore |-> result.confidenceScore]

\* ChatGateway.sendMessage: the newMessage broadcast to the room.
SendBroadcast(c) ==
    LET r == req[c]
    IN  /\ r.op = "send" /\ r.pc = "broadcast"
        /\ lastEmit' = <<ToRoom(r.groupId, "newMessage",
                           NewMessage(r.messageId, UserOf(c), r.contentType, r.result))>>
        /\ bcast' = Count(bcast, r.messageId)
        /\ fanout' = Started(fanout, r.messageId,
                             NotifyTask(r.groupId, UserOf(c), r.result.translations,
                                        FirstText(r.result.transcription, r.rawContent)))
        /\ req' = [req EXCEPT ![c] = Idle]
        /\ screen' = Deliver(lastEmit')
        /\ UNCHANGED <<groups, sock, dict, recorder, refine, pushTokens, pushed, members, joined, msgs, nextId, clock, ticks, accepted, capacity>>

\* -------------------------------------------------------- processAudio
AudioBody(g, audio) == [groupId |-> g, audioBase64 |-> audio]

\* AudioService.saveAudioBuffer: the reference of the stored recording.
AudioUrl == Str("/uploads/rec.m4a", 16)

\* An HTTP response to the caller of a REST route.
Http(c, status, body) == ToClient(c, "http", [status |-> status, body |-> body])

\* AudioController.processAudio up to the dispatch to the Language Mediator.
ProcessAudioBegin(c, body) ==
    LET userId == UserOf(c)
        groupId == Trim(body.groupId.val)
    IN  /\ req[c] = Idle
        /\ CanSubmit
        /\ IF NotNonBlankString(body.groupId)
           THEN /\ lastEmit' = <<Http(c, 400, "groupId is required")>>
                /\ req' = req
           ELSE IF ~IsString(body.audioBase64) \/ StrLen(Trim(body.audioBase64.val)) < 10
           THEN /\ lastEmit' = <<Http(c, 400, "audioBase64 is required")>>
                /\ req' = req
           ELSE IF ~isMember(groupId, userId)
           THEN /\ lastEmit' = <<Http(c, 400, "You are not a member of this group")>>
                /\ req' = req
           ELSE /\ lastEmit' = << >>
                /\ req' = [req EXCEPT ![c] =
                     [op |-> "audio", pc |-> "translate", groupId |-> groupId,
                      fileUrl |-> AudioUrl]]
        /\ screen' = Deliver(lastEmit')
        /\ UNCHANGED <<groups, sock, dict, recorder, refine, pushTokens, fanout, pushed, members, joined, msgs, nextId, clock, ticks, bcast, accepted, capacity>>

\* A gate that rejects only when the score is low and the transcription is
\* blank as well.
appearsInaudible_Both(result) ==
    /\ result.confidenceScore <= InaudibleMaxScore
    /\ \/ result.transcription = None
       \/ StrLen(Trim(The(result.transcription))) = 0

\* AudioController.processAudio: the audibility gate.
appearsInaudible(result) ==
    \/ result.confidenceScore <= InaudibleMaxScore
    \/ result.transcription = None
    \/ StrLen(Trim(The(result.transcription))) = 0

\* AudioController.processAudio: translateIntent returns and the audibility
\* gate judges the result.
AudioTranslateOk(c) ==
    LET r == req[c]
    IN  /\ r.op = "audio" /\ r.pc = "translate"
        /\ \E result \in AudioResults(r.fileUrl) :
             IF appearsInaudible(result)
             THEN /\ lastEmit' = <<Http(c, 422, "audioNotAudible")>>
                  /\ req' = [req EXCEPT ![c] = Idle]
                  /\ accepted' = accepted
             ELSE /\ lastEmit' = << >>
                  /\ req' = [req EXCEPT ![c] = [r EXCEPT !.pc = "save"] @@ [result |-> result]]
                  /\ accepted' = accepted + 1
        /\ screen' = Deliver(lastEmit')
        /\ UNCHANGED <<groups, sock, dict, recorder, refine, pushTokens, fanout, pushed, members, joined, msgs, nextId, clock, ticks, bcast, capacity>>

\* AudioController.processAudio: translateIntent throws.
AudioTranslateFail(c) ==
    /\ req[c].op = "audio" /\ req[c].pc = "translate"
    /\ req' = [req EXCEPT ![c] = Idle]
    /\ lastEmit' = <<Http(c, 500, "Internal server error")>>
    /\ screen' = Deliver(lastEmit')
    /\ UNCHANGED <<groups, sock, dict, recorder, refine, pushTokens, fanout, pushed, members, joined, msgs, nextId, clock, ticks, bcast, accepted, capacity>>

\* AudioController.processAudio: chatService.saveMessage.
AudioSave(c) ==
    LET r == req[c]
        message == saveMessage(GeneratedId, UserOf(c), r.groupId, "AUDIO", r.fileUrl,
                               r.result.transcription, r.result.translations,
                               Some(r.result.confidenceScore))
    IN  /\ r.op = "audio" /\ r.pc = "save"
        /\ msgs' = Upsert(msgs, message)
        /\ nextId' = nextId + 1
        /\ req' = [req EXCEPT ![c] = [r EXCEPT !.pc = "broadcast"] @@ [messageId |-> message.id]]
        /\ lastEmit' = << >>
        /\ screen' = Deliver(lastEmit')
        /\ UNCHANGED <<groups, sock, dict, recorder, refine, pushTokens, fanout, pushed, members, joined, clock, ticks, bcast, accepted, capacity>>

\* AudioController.processAudio: chatGateway.broadcastToGroup and the
\* response to the caller.
AudioBroadcast(c) ==
    LET r == req[c]
    IN  /\ r.op = "audio" /\ r.pc = "broadcast"
        /\ lastEmit' = <<ToRoom(r.groupId, "newMessage",
                           NewMessage(r.messageId, UserOf(c), "AUDIO", r.result)),
                         Http(c, 200, "success")>>
        /\ bcast' = Count(bcast, r.messageId)
        /\ fanout' = Started(fanout, r.messageId,
                             NotifyTask(r.groupId, UserOf(c), r.result.translations,
                                        FirstText(r.result.transcription, None)))
        /\ req' = [req EXCEPT ![c] = Idle]
        /\ screen' = Deliver(lastEmit')
        /\ UNCHANGED <<groups, sock, dict, recorder, refine, pushTokens, pushed, members, joined, msgs, nextId, clock, ticks, accepted, capacity>>

\* ------------------------------------------------------ deleteMessages
\* A payload field holding an array.
A(seq) == [type |-> "array", val |-> seq]
IsArray(v) == v.type = "array"

DeletePayload(g, ids) == [groupId |-> g, messageIds |-> ids]

\* The elements of a sequence.
Range(seq) == {seq[i] : i \in DOMAIN seq}

\* ChatGateway.handleDeleteMessages: payload validation and the membership
\* check.
DeleteBegin(c, payload) ==
    LET userId == UserOf(c)
    IN  /\ req[c] = Idle
        /\ WsJwtGuard(c)
        /\ sock' = Attached(c)
        /\ IF \/ NotNonBlankString(payload.groupId)
              \/ ~IsArray(payload.messageIds)
              \/ Len(payload.messageIds.val) = 0
           THEN /\ lastEmit' = <<ToClient(c, "deleteFailed", [reason |-> "Invalid payload"])>>
                /\ req' = req
           ELSE IF ~isMember(payload.groupId.val, userId)
           THEN /\ lastEmit' = <<ToClient(c, "deleteFailed", [reason |-> "Forbidden"])>>
                /\ req' = req
           ELSE /\ lastEmit' = << >>
                /\ req' = [req EXCEPT ![c] =
                     [op |-> "delete", pc |-> "find", groupId |-> payload.groupId.val,
                      messageIds |-> payload.messageIds.val]]
        /\ screen' = Take(c, "deleteMessages", payload, lastEmit')
        /\ UNCHANGED <<groups, dict, recorder, refine, pushTokens, fanout, pushed, members, joined, msgs, nextId, clock, ticks, bcast, accepted, capacity>>

\* A validation that looks at the first id of the list only.
deleteCheck_FirstOnly(messageIds, found, userId) ==
    IF messageIds = << >> THEN "ok"
    ELSE IF Head(messageIds) \notin DOMAIN found THEN "Message not found"
    ELSE IF found[Head(messageIds)].senderId # userId
         THEN "You can only delete your own messages"
    ELSE "ok"

\* ChatService.deleteMessages: the reason the validation loop throws for
\* the rows found, or "ok".  The first offending id in list order decides.
RECURSIVE deleteCheck(_, _, _)
deleteCheck(messageIds, found, userId) ==
    IF messageIds = << >> THEN "ok"
    ELSE LET id == Head(messageIds)
         IN  IF id \notin DOMAIN found THEN "Message not found"
             ELSE IF found[id].senderId # userId
                  THEN "You can only delete your own messages"
             ELSE deleteCheck(Tail(messageIds), found, userId)

\* messageRepository.find({ where: { id: In(messageIds) } })
findByIds(messageIds) ==
    [i \in DOMAIN msgs \cap Range(messageIds) |-> msgs[i]]

\* ChatService.deleteMessages: the rows are resolved and validated.
DeleteFind(c) ==
    LET r == req[c]
        messages == findByIds(r.messageIds)
        problem == deleteCheck(r.messageIds, messages, UserOf(c))
    IN  /\ r.op = "delete" /\ r.pc = "find"
        /\ IF problem # "ok"
           THEN /\ lastEmit' = <<ToClient(c, "deleteFailed", [reason |-> problem])>>
                /\ req' = [req EXCEPT ![c] = Idle]
           ELSE /\ lastEmit' = << >>
                /\ req' = [req EXCEPT ![c] =
                             [r EXCEPT !.pc = "remove"] @@ [found |-> DOMAIN messages]]
        /\ screen' = Deliver(lastEmit')
        /\ UNCHANGED <<groups, sock, dict, recorder, refine, pushTokens, fanout, pushed, members, joined, msgs, nextId, clock, ticks, bcast, accepted, capacity>>

\* A removal that deletes nothing.
removeRows_Nothing(table, ids) == table

\* messageRepository.remove(messages): one transaction deleting the rows.
removeRows(table, ids) == [i \in DOMAIN table \ ids |-> table[i]]

\* ChatService.deleteMessages: the rows are removed.
DeleteRemove(c) ==
    LET r == req[c]
    IN  /\ r.op = "delete" /\ r.pc = "remove"
        /\ msgs' = removeRows(msgs, r.found)
        /\ req' = [req EXCEPT ![c] = [r EXCEPT !.pc = "emit"]]
        /\ lastEmit' = << >>
        /\ screen' = Deliver(lastEmit')
        /\ UNCHANGED <<groups, sock, dict, recorder, refine, pushTokens, fanout, pushed, members, joined, nextId, clock, ticks, bcast, accepted, capacity>>

\* ChatGateway.handleDeleteMessages: the messagesDeleted broadcast.
DeleteEmit(c) ==
    LET r == req[c]
    IN  /\ r.op = "delete" /\ r.pc = "emit"
        /\ lastEmit' = <<ToRoom(r.groupId, "messagesDeleted",
                           [messageIds |-> r.messageIds, deletedBy |-> UserOf(c)])>>
        /\ req' = [req EXCEPT ![c] = Idle]
        /\ screen' = Deliver(lastEmit')
        /\ UNCHANGED <<groups, sock, dict, recorder, refine, pushTokens, fanout, pushed, members, joined, msgs, nextId, clock, ticks, bcast, accepted, capacity>>

\* --------------------------------------------------------- editMessage
EditPayload(g, id, content) == [groupId |-> g, messageId |-> id, newContent |-> content]

\* ChatService.findMessageById
findMessageById(id) == IF id \in DOMAIN msgs THEN Some(msgs[id]) ELSE None

EditFailed(c, messageId, reason) ==
    ToClient(c, "editFailed", [messageId |-> messageId, reason |-> reason])

\* A handler without the no-op check.
EditBegin_NoNoopCheck(c, payload) ==
    LET trimmed == Trim(payload.newContent.val)
        existing == findMessageById(payload.messageId.val)
    IN  /\ req[c] = Idle
        /\ WsJwtGuard(c)
        /\ sock' = Attached(c)
        /\ IF \/ NotNonBlankString(payload.groupId)
              \/ NotNonBlankString(payload.messageId)
              \/ ~IsString(payload.newContent)
           THEN /\ lastEmit' = <<EditFailed(c, payload.messageId, "Invalid payload")>>
                /\ req' = req
           ELSE IF StrLen(trimmed) = 0
           THEN /\ lastEmit' = <<EditFailed(c, payload.messageId, "Message cannot be empty")>>
                /\ req' = req
           ELSE IF StrLen(trimmed) > MaxEditLength
           THEN /\ lastEmit' = <<EditFailed(c, payload.messageId, "Message is too long")>>
                /\ req' = req
           ELSE /\ lastEmit' = << >>
                /\ req' = [req EXCEPT ![c] =
                     [op |-> "edit", pc |-> "member", groupId |-> payload.groupId.val,
                      messageId |-> payload.messageId.val, trimmed |-> trimmed,
                      before |-> existing]]
        /\ screen' = Take(c, "editMessage", payload, lastEmit')
        /\ UNCHANGED <<groups, dict, recorder, refine, pushTokens, fanout, pushed, members, joined, msgs, nextId, clock, ticks, bcast, accepted, capacity>>

\* ChatGateway.handleEditMessage: payload validation, trimming and the
\* no-op check against the stored content.
EditBegin(c, payload) ==
    LET trimmed == Trim(payload.newContent.val)
        existing == findMessageById(payload.messageId.val)
    IN  /\ req[c] = Idle
        /\ WsJwtGuard(c)
        /\ sock' = Attached(c)
        /\ IF \/ NotNonBlankString(payload.groupId)
              \/ NotNonBlankString(payload.messageId)
              \/ ~IsString(payload.newContent)
           THEN /\ lastEmit' = <<EditFailed(c, payload.messageId, "Invalid payload")>>
                /\ req' = req
           ELSE IF StrLen(trimmed) = 0
           THEN /\ lastEmit' = <<EditFailed(c, payload.messageId, "Message cannot be empty")>>
                /\ req' = req
           ELSE IF StrLen(trimmed) > MaxEditLength
           THEN /\ lastEmit' = <<EditFailed(c, payload.messageId, "Message is too long")>>
                /\ req' = req
           ELSE IF existing # None /\ The(existing).rawContent = trimmed
           THEN /\ lastEmit' = <<EditFailed(c, payload.messageId, "No changes detected")>>
                /\ req' = req
           ELSE /\ lastEmit' = << >>
                /\ req' = [req EXCEPT ![c] =
                     [op |-> "edit", pc |-> "member", groupId |-> payload.groupId.val,
                      messageId |-> payload.messageId.val, trimmed |-> trimmed,
                      before |-> existing]]
        /\ screen' = Take(c, "editMessage", payload, lastEmit')
        /\ UNCHANGED <<groups, dict, recorder, refine, pushTokens, fanout, pushed, members, joined, msgs, nextId, clock, ticks, bcast, accepted, capacity>>

\* WsAllExceptionsFilter.catch for an exception that is not a WsException.
InternalError(c) ==
    ToClient(c, "error", [status |-> "INTERNAL_ERROR", message |-> "Internal server error"])

\* ChatGateway.handleEditMessage: the payload is well-formed and
\* chatService.findMessageById rejects (the store is unavailable).  The
\* call is made before the handler's try block, so the exception reaches the
\* exception filter.
EditLookupFail(c, payload) ==
    /\ req[c] = Idle
    /\ WsJwtGuard(c)
    /\ sock' = Attached(c)
    /\ ~NotNonBlankString(payload.groupId)
    /\ ~NotNonBlankString(payload.messageId)
    /\ IsString(payload.newContent)
    /\ StrLen(Trim(payload.newContent.val)) \in 1..MaxEditLength
    /\ lastEmit' = <<InternalError(c)>>
    /\ screen' = Take(c, "editMessage", payload, lastEmit')
    /\ UNCHANGED <<groups, dict, recorder, refine, pushTokens, fanout, pushed, members, joined, msgs, nextId, clock, ticks, req, bcast, accepted, capacity>>

\* ChatGateway.handleEditMessage: groupsService.isMember rejects, also
\* before the try block.
EditMemberFail(c) ==
    /\ req[c].op = "edit" /\ req[c].pc = "member"
    /\ lastEmit' = <<InternalError(c)>>
    /\ req' = [req EXCEPT ![c] = Idle]
    /\ screen' = Deliver(lastEmit')
    /\ UNCHANGED <<groups, sock, dict, recorder, refine, pushTokens, fanout, pushed, members, joined, msgs, nextId, clock, ticks, bcast, accepted, capacity>>

\* ChatGateway.handleEditMessage: the membership check.
EditMember(c) ==
    LET r == req[c]
    IN  /\ r.op = "edit" /\ r.pc = "member"
        /\ IF ~isMember(r.groupId, UserOf(c))
           THEN /\ lastEmit' = <<EditFailed(c, S(r.messageId), "Forbidden")>>
                /\ req' = [req EXCEPT ![c] = Idle]
           ELSE /\ lastEmit' = << >>
                /\ req' = [req EXCEPT ![c] = [r EXCEPT !.pc = "load"]]
        /\ screen' = Deliver(lastEmit')
        /\ UNCHANGED <<groups, sock, dict, recorder, refine, pushTokens, fanout, pushed, members, joined, msgs, nextId, clock, ticks, bcast, accepted, capacity>>

\* A validation without the edit window.
editCheck_NoWindow(msg, userId) ==
    IF msg = None THEN "Message not found"
    ELSE IF The(msg).senderId # userId THEN "You can only edit your own messages"
    ELSE IF The(msg).contentType # "TEXT" THEN "Only text messages can be edited"
    ELSE "ok"

\* A validation that does not compare the sender with the requester.
editCheck_AnySender(msg, userId) ==
    IF msg = None THEN "Message not found"
    ELSE IF The(msg).contentType # "TEXT" THEN "Only text messages can be edited"
    ELSE IF The(msg).createdAt < clock - EditWindowMinutes
         THEN "Messages can only be edited within 15 minutes of sending"
    ELSE "ok"

\* ChatService.editMessage: the reason it throws for the row loaded, or "ok".
editCheck(msg, userId) ==
    IF msg = None THEN "Message not found"
    ELSE IF The(msg).senderId # userId THEN "You can only edit your own messages"
    ELSE IF The(msg).contentType # "TEXT" THEN "Only text messages can be edited"
    ELSE IF The(msg).createdAt < clock - EditWindowMinutes
         THEN "Messages can only be edited within 15 minutes of sending"
    ELSE "ok"

\* An edit that overwrites the content and does not mark the row edited.
editedEntity_KeepFlag(msg, newContent) ==
    [msg EXCEPT !.rawContent = newContent,
                !.translations = None, !.confidenceScore = None]

\* ChatService.editMessage: the entity as assigned before it is saved.
editedEntity(msg, newContent) ==
    [msg EXCEPT !.rawContent = newContent, !.isEdited = TRUE,
                !.translations = None, !.confidenceScore = None]

\* ChatService.editMessage: the row is loaded and validated.
EditLoad(c) ==
    LET r == req[c]
        msg == findMessageById(r.messageId)
        problem == editCheck(msg, UserOf(c))
    IN  /\ r.op = "edit" /\ r.pc = "load"
        /\ IF problem # "ok"
           THEN /\ lastEmit' = <<EditFailed(c, S(r.messageId), problem)>>
                /\ req' = [req EXCEPT ![c] = Idle]
           ELSE /\ lastEmit' = << >>
                /\ req' = [req EXCEPT ![c] = [r EXCEPT !.pc = "persist"]
                             @@ [entity |-> editedEntity(The(msg), r.trimmed)]]
        /\ screen' = Deliver(lastEmit')
        /\ UNCHANGED <<groups, sock, dict, recorder, refine, pushTokens, fanout, pushed, members, joined, msgs, nextId, clock, ticks, bcast, accepted, capacity>>

\* ChatService.editMessage: messageRepository.save(msg).
EditPersist(c) ==
    LET r == req[c]
    IN  /\ r.op = "edit" /\ r.pc = "persist"
        /\ msgs' = Upsert(msgs, r.entity)
        /\ req' = [req EXCEPT ![c] = [r EXCEPT !.pc = "translate"]]
        /\ lastEmit' = << >>
        /\ screen' = Deliver(lastEmit')
        /\ UNCHANGED <<groups, sock, dict, recorder, refine, pushTokens, fanout, pushed, members, joined, nextId, clock, ticks, bcast, accepted, capacity>>

\* ChatGateway.handleEditMessage: translateIntent returns.
EditTranslateOk(c) ==
    LET r == req[c]
    IN  /\ r.op = "edit" /\ r.pc = "translate"
        /\ req' = [req EXCEPT ![c] = [r EXCEPT !.pc = "update"]
                     @@ [result |-> MediateText(r.trimmed)]]
        /\ lastEmit' = << >>
        /\ screen' = Deliver(lastEmit')
        /\ UNCHANGED <<groups, sock, dict, recorder, refine, pushTokens, fanout, pushed, members, joined, msgs, nextId, clock, ticks, bcast, accepted, capacity>>

\* ChatGateway.handleEditMessage: translateIntent throws and the handler's
\* catch reports it.
EditTranslateFail(c) ==
    LET r == req[c]
    IN  /\ r.op = "edit" /\ r.pc = "translate"
        /\ lastEmit' = <<EditFailed(c, S(r.messageId), "Mediation failed")>>
        /\ req' = [req EXCEPT ![c] = Idle]
        /\ screen' = Deliver(lastEmit')
        /\ UNCHANGED <<groups, sock, dict, recorder, refine, pushTokens, fanout, pushed, members, joined, msgs, nextId, clock, ticks, bcast, accepted, capacity>>

\* An update that writes the translations and leaves the confidence score.
updateTranslations_OnlyTranslations(table, id, translations, confidenceScore) ==
    [i \in DOMAIN table |->
        IF i = id THEN [table[i] EXCEPT !.translations = translations] ELSE table[i]]

\* messageRepository.update(id, { translations, confidenceScore })
updateTranslations(table, id, translations, confidenceScore) ==
    [i \in DOMAIN table |->
        IF i = id
        THEN [table[i] EXCEPT !.translations = translations,
                              !.confidenceScore = confidenceScore]
        ELSE table[i]]

\* ChatService.updateMessageTranslations: the update.
EditUpdate(c) ==
    LET r == req[c]
    IN  /\ r.op = "edit" /\ r.pc = "update"
        /\ msgs' = updateTranslations(msgs, r.messageId, r.result.translations,
                                      Some(r.result.confidenceScore))
        /\ req' = [req EXCEPT ![c] = [r EXCEPT !.pc = "emit"]]
        /\ lastEmit' = << >>
        /\ screen' = Deliver(lastEmit')
        /\ UNCHANGED <<groups, sock, dict, recorder, refine, pushTokens, fanout, pushed, members, joined, nextId, clock, ticks, bcast, accepted, capacity>>

\* ChatService.updateMessageTranslations: findOneOrFail, and the
\* messageEdited broadcast of ChatGateway.handleEditMessage.
EditEmit(c) ==
    LET r == req[c]
        finalMessage == findMessageById(r.messageId)
    IN  /\ r.op = "edit" /\ r.pc = "emit"
        /\ IF finalMessage = None
           THEN lastEmit' = <<EditFailed(c, S(r.messageId), "EntityNotFound")>>
           ELSE lastEmit' = <<ToRoom(r.groupId, "messageEdited",
                                [messageId |-> r.messageId, newContent |-> r.trimmed,
                                 translations |-> The(finalMessage).translations,
                                 confidenceScore |-> The(finalMessage).confidenceScore,
                                 isEdited |-> TRUE])>>
        /\ req' = [req EXCEPT ![c] = Idle]
        /\ screen' = Deliver(lastEmit')
        /\ UNCHANGED <<groups, sock, dict, recorder, refine, pushTokens, fanout, pushed, members, joined, msgs, nextId, clock, ticks, bcast, accepted, capacity>>

\* --------------------------------------------------------- history
\* ChatService.getPaginatedHistory: the default page size.
HistoryLimit == 50

\* The keys of the rows of a room.
RoomRows(groupId) == {i \in DOMAIN msgs : msgs[i].groupId = groupId}

\* order: { createdAt: 'DESC' }: the orders in which the store may return
\* the rows; rows created at the same time come in any order.
Orderings(ids) ==
    {o \in [1..Cardinality(ids) -> ids] :
        \A i, j \in 1..Cardinality(ids) :
            i < j => (o[i] # o[j] /\ msgs[o[i]].createdAt >= msgs[o[j]].createdAt)}

\* ChatService.getPaginatedHistory: the pages the query may return.
getPaginatedHistory(groupId, page, limit) ==
    LET skip == (page - 1) * limit
    IN  {[k \in 1..((IF Len(o) < skip + limit THEN Len(o) ELSE skip + limit) - skip)
            |-> msgs[o[skip + k]]] : o \in Orderings(RoomRows(groupId))}

\* -------------------------------------------------------- retranslate
\* ChatController.retranslateMessage: the message is looked up.
RetranslateBegin(c, messageId) ==
    LET message == findMessageById(messageId)
    IN  /\ req[c] = Idle
        /\ IF message = None
           THEN /\ lastEmit' = <<Http(c, 404, "Message not found")>>
                /\ req' = req
           ELSE /\ lastEmit' = << >>
                /\ req' = [req EXCEPT ![c] =
                     [op |-> "retranslate", pc |-> "member", messageId |-> messageId,
                      message |-> The(message)]]
        /\ screen' = Deliver(lastEmit')
        /\ UNCHANGED <<groups, sock, dict, recorder, refine, pushTokens, fanout, pushed, members, joined, msgs, nextId, clock, ticks, bcast, accepted, capacity>>

\* ChatController.retranslateMessage: the membership check, against the
\* room of the message.
RetranslateMember(c) ==
    LET r == req[c]
    IN  /\ r.op = "retranslate" /\ r.pc = "member"
        /\ IF ~isMember(r.message.groupId, UserOf(c))
           THEN /\ lastEmit' = <<Http(c, 403, "You are not a member of this conversation")>>
                /\ req' = [req EXCEPT ![c] = Idle]
           ELSE /\ lastEmit' = << >>
                /\ req' = [req EXCEPT ![c] = [r EXCEPT !.pc = "translate"]]
        /\ screen' = Deliver(lastEmit')
        /\ UNCHANGED <<groups, sock, dict, recorder, refine, pushTokens, fanout, pushed, members, joined, msgs, nextId, clock, ticks, bcast, accepted, capacity>>

\* What translateIntent may return for the message loaded: a recording is
\* mediated again from its file, text and media from the stored content.
RetranslateResults(message) ==
    IF message.contentType = "AUDIO"
    THEN AudioResults(message.rawContent)
    ELSE {MediateText(message.rawContent)}

\* ChatController.retranslateMessage: translateIntent returns.
RetranslateTranslateOk(c) ==
    LET r == req[c]
    IN  /\ r.op = "retranslate" /\ r.pc = "translate"
        /\ \E result \in RetranslateResults(r.message) :
              req' = [req EXCEPT ![c] = [r EXCEPT !.pc = "update"] @@ [result |-> result]]
        /\ lastEmit' = << >>
        /\ screen' = Deliver(lastEmit')
        /\ UNCHANGED <<groups, sock, dict, recorder, refine, pushTokens, fanout, pushed, members, joined, msgs, nextId, clock, ticks, bcast, accepted, capacity>>

\* ChatController.retranslateMessage: reading the file or translateIntent
\* throws.
RetranslateTranslateFail(c) ==
    /\ req[c].op = "retranslate" /\ req[c].pc = "translate"
    /\ req' = [req EXCEPT ![c] = Idle]
    /\ lastEmit' = <<Http(c, 500, "Internal server error")>>
    /\ screen' = Deliver(lastEmit')
    /\ UNCHANGED <<groups, sock, dict, recorder, refine, pushTokens, fanout, pushed, members, joined, msgs, nextId, clock, ticks, bcast, accepted, capacity>>

\* ChatService.updateMessageTranslations: the update.
RetranslateUpdate(c) ==
    LET r == req[c]
    IN  /\ r.op = "retranslate" /\ r.pc = "update"
        /\ msgs' = updateTranslations(msgs, r.messageId, r.result.translations,
                                      Some(r.result.confidenceScore))
        /\ req' = [req EXCEPT ![c] = [r EXCEPT !.pc = "reply"]]
        /\ lastEmit' = << >>
        /\ screen' = Deliver(lastEmit')
        /\ UNCHANGED <<groups, sock, dict, recorder, refine, pushTokens, fanout, pushed, members, joined, nextId, clock, ticks, bcast, accepted, capacity>>

\* ChatService.updateMessageTranslations: findOneOrFail, and the response
\* of ChatController.retranslateMessage.
RetranslateReply(c) ==
    LET r == req[c]
    IN  /\ r.op = "retranslate" /\ r.pc = "reply"
        /\ IF findMessageById(r.messageId) = None
           THEN lastEmit' = <<Http(c, 500, "Internal server error")>>
           ELSE lastEmit' = <<Http(c, 200, [translations |-> r.result.translations,
                                            confidenceScore |-> r.result.confidenceScore])>>
        /\ req' = [req EXCEPT ![c] = Idle]
        /\ screen' = Deliver(lastEmit')
        /\ UNCHANGED <<groups, sock, dict, recorder, refine, pushTokens, fanout, pushed, members, joined, msgs, nextId, clock, ticks, bcast, accepted, capacity>>

\* ------------------------------------------------- notification fan-out
ChunkSize == 100
ExpoPrefix == Str("ExponentPushToken[", 18)
\* The address Expo hands to the device of user u.
ExpoToken(u) == ExpoPrefix \o Str(u, 2) \o Str("]", 1)
\* An address of another push provider.
ForeignToken == Str("fcm-token", 9)
\* String.prototype.startsWith
StartsWith(t, prefix) == Len(t) >= Len(prefix) /\ SubSeq(t, 1, Len(prefix)) = prefix

\* NotificationService.registerToken
RegisterToken(u, token) ==
    /\ pushTokens[u] # Some(token)
    /\ pushTokens' = [pushTokens EXCEPT ![u] = Some(token)]
    /\ lastEmit' = << >>
    /\ screen' = Deliver(lastEmit')
    /\ UNCHANGED <<groups, sock, dict, recorder, refine, fanout, pushed, members, joined, msgs, nextId, clock, ticks, req, bcast, accepted, capacity>>

\* NotificationService.clearToken
ClearToken(u) ==
    /\ pushTokens[u] # None
    /\ pushTokens' = [pushTokens EXCEPT ![u] = None]
    /\ lastEmit' = << >>
    /\ screen' = Deliver(lastEmit')
    /\ UNCHANGED <<groups, sock, dict, recorder, refine, fanout, pushed, members, joined, msgs, nextId, clock, ticks, req, bcast, accepted, capacity>>

\* GroupsService.findMembers: the memberships of the room, each with its
\* user's push address.
findMembers(groupId) ==
    {[userId |-> m.userId, expoPushToken |-> pushTokens[m.userId]] :
        m \in {x \in members : x.groupId = groupId}}

\* The call leaves the table of calls in flight.
Ended(tasks, id) == [i \in DOMAIN tasks \ {id} |-> tasks[i]]

\* sendChatNotification, step 1: the membership of the room is read.
FanoutMembers(id) ==
    /\ id \in DOMAIN fanout
    /\ fanout[id].pc = "members"
    /\ fanout' = [fanout EXCEPT ![id] =
                    [pc |-> "sockets", members |-> findMembers(fanout[id].groupId)] @@ @]
    /\ lastEmit' = << >>
    /\ screen' = Deliver(lastEmit')
    /\ UNCHANGED <<groups, sock, dict, recorder, refine, pushTokens, pushed, members, joined, msgs, nextId, clock, ticks, req, bcast, accepted, capacity>>

\* A lookup failure that is reported to the sender's connections.
FanoutFail_Raised(id) ==
    /\ id \in DOMAIN fanout
    /\ fanout[id].pc \in {"members", "sockets"}
    /\ fanout' = Ended(fanout, id)
    /\ lastEmit' = <<[ev |-> "error", to |-> {c \in Conns : UserOf(c) = fanout[id].senderId},
                      room |-> None,
                      data |-> [status |-> "INTERNAL_ERROR", message |-> "Internal server error"]]>>
    /\ screen' = Deliver(lastEmit')
    /\ UNCHANGED <<groups, sock, dict, recorder, refine, pushTokens, pushed, members, joined, msgs, nextId, clock, ticks, req, bcast, accepted, capacity>>

\* sendChatNotification: findMembers, findGroupsForUser or fetchSockets
\* rejects; the catch block logs and the call ends.
FanoutFail(id) ==
    /\ id \in DOMAIN fanout
    /\ fanout[id].pc \in {"members", "sockets"}
    /\ fanout' = Ended(fanout, id)
    /\ lastEmit' = << >>
    /\ screen' = Deliver(lastEmit')
    /\ UNCHANGED <<groups, sock, dict, recorder, refine, pushTokens, pushed, members, joined, msgs, nextId, clock, ticks, req, bcast, accepted, capacity>>

\* The users with a socket in the room.
onlineUserIds(groupId) == {UserOf(s) : s \in SocketsIn(groupId)}

\* A filter that leaves the sender among the recipients.
offlineMembers_WithSender(task, online) ==
    {m \in task.members :
        /\ m.userId \notin online
        /\ m.expoPushToken # None /\ StrLen(The(m.expoPushToken)) > 0}

\* sendChatNotification, step 5: not the sender, not online, has an address.
offlineMembers(task, online) ==
    {m \in task.members :
        /\ m.userId # task.senderId
        /\ m.userId \notin online
        /\ m.expoPushToken # None /\ StrLen(The(m.expoPushToken)) > 0}

\* The notification text for a member: the rendering in the member's
\* language when the translations have one, else the fallback text.  No
\* member of the model has set a language, so the language is 'english'.
BodyFor(task, m) ==
    IF task.translations # None /\ "english" \in DOMAIN The(task.translations)
    THEN The(task.translations)["english"]
    ELSE task.fallbackText

\* sendChatNotification, step 6: the recipients grouped by notification
\* text.  A recipient is kept with its member as <<userId, address>>.
tokensByBody(task, recipients) ==
    {[body |-> b,
      tokens |-> {<<m.userId, The(m.expoPushToken)>> :
                     m \in {x \in recipients : BodyFor(task, x) = b}}] :
        b \in {BodyFor(task, m) : m \in recipients}}

\* sendChatNotification, steps 4 to 6: the sockets of the room are read and
\* the recipients are chosen; with no recipient the call ends.
FanoutSockets(id) ==
    LET task == fanout[id]
        online == onlineUserIds(task.groupId)
        recipients == offlineMembers(task, online)
    IN  /\ id \in DOMAIN fanout
        /\ task.pc = "sockets"
        /\ fanout' = IF recipients = {} THEN Ended(fanout, id)
                     ELSE [fanout EXCEPT ![id] =
                             [pc |-> "send", online |-> online,
                              batches |-> tokensByBody(task, recipients)] @@ @]
        /\ lastEmit' = << >>
        /\ screen' = Deliver(lastEmit')
        /\ UNCHANGED <<groups, sock, dict, recorder, refine, pushTokens, pushed, members, joined, msgs, nextId, clock, ticks, req, bcast, accepted, capacity>>

\* NotificationService.sendPushNotifications: the addresses that are kept.
validTokens(tokens) == {t \in tokens : StrLen(t[2]) > 0 /\ StartsWith(t[2], ExpoPrefix)}

RECURSIVE Chunks(_)
\* NotificationService.sendPushNotifications: batches of at most ChunkSize.
Chunks(tokens) ==
    IF Cardinality(tokens) <= ChunkSize
    THEN IF tokens = {} THEN {} ELSE {tokens}
    ELSE LET first == CHOOSE c \in SUBSET tokens : Cardinality(c) = ChunkSize
         IN  {first} \cup Chunks(tokens \ first)

\* What the provider did with a batch: took it, failed (error or timeout),
\* or reported its devices as no longer registered.
PushOutcomes == {"ok", "failed", "DeviceNotRegistered"}

\* NotificationService.nullifyStaleToken for every address of the batch.
nullifyStaleTokens(table, tokens) ==
    [u \in DOMAIN table |->
        IF table[u] # None /\ The(table[u]) \in {t[2] : t \in tokens} THEN None ELSE table[u]]

\* sendChatNotification, step 7: one group of recipients is handed to
\* sendPushNotifications and its batches are posted; after the last group
\* the call ends.
FanoutSend(id, outcome) ==
    LET task == fanout[id]
        batch == CHOOSE b \in task.batches : TRUE
        rest == task.batches \ {batch}
        chunks == Chunks(validTokens(batch.tokens))
    IN  /\ id \in DOMAIN fanout
        /\ task.pc = "send"
        /\ pushed' = pushed \cup
                {[messageId |-> id, body |-> batch.body, to |-> chunk, outcome |-> outcome] :
                    chunk \in chunks}
        /\ pushTokens' = IF outcome = "DeviceNotRegistered"
                         THEN nullifyStaleTokens(pushTokens, UNION chunks)
                         ELSE pushTokens
        /\ fanout' = IF rest = {} THEN Ended(fanout, id)
                     ELSE [fanout EXCEPT ![id].batches = rest]
        /\ lastEmit' = << >>
        /\ screen' = Deliver(lastEmit')
        /\ UNCHANGED <<groups, sock, dict, recorder, refine, members, joined, msgs, nextId, clock, ticks, req, bcast, accepted, capacity>>

\* ------------------------------------------------------ input sets
R1 == RoomText("r1")
R2 == RoomText("r2")
TextA == Str("a", 1)
TextB == Str("b", 1)

JoinTo(g) == [groupId |-> S(g), group_id |-> Undefined]
TextTo(g) == SendPayload(S(g), S(TypeText("TEXT")), S(TextA), Undefined, Undefined)
ImageTo(g) == SendPayload(S(g), S(TypeText("IMAGE")), Undefined, Undefined, S(FileUrl))
Recording == S(Str("AAAAAAAAAAAA", 12))

\* ------------------------------------------------ ChatScreen (mobile)
\* The number of messages the local user submits.
MaxSends == 2
\* The number of edits the local user has awaiting the server's answer.
MaxEdits == 1
\* The ids the screen generates for optimistic messages, in order.
UuidNames == <<"o1", "o2", "o3", "o4">>
Uuid(n) == Str(UuidNames[n], 36)

\* ChatMessage: an entry of the screen's list.
ChatMessage(id, senderId, contentType, rawContent, translations, confidenceScore, isOptimistic) ==
    [id |-> id, senderId |-> senderId, contentType |-> contentType,
     rawContent |-> rawContent, translations |-> translations,
     confidenceScore |-> confidenceScore, isOptimistic |-> isOptimistic,
     isEdited |-> FALSE, isRetrying |-> FALSE, isSelected |-> FALSE]

\* evt.<name>, undefined when the event does not carry it
Field(evt, name) == IF name \in DOMAIN evt THEN evt[name] ELSE None

\* serverEventToChatMessage
serverEventToChatMessage(evt) ==
    ChatMessage(evt.messageId, evt.senderId, evt.contentType,
                FirstText(Field(evt, "fileUrl"), Field(evt, "originalText")),
                evt.translations, Some(evt.confidenceScore), FALSE)

\* m.isOptimistic && m.senderId === userId
IsPending(m) == m.isOptimistic /\ m.senderId = LocalUser
\* Array.prototype.findIndex over the pending test: the lowest matching
\* position, 0 when there is none.
findIndexPending(list) ==
    LET hits == {i \in 1..Len(list) : IsPending(list[i])}
    IN  IF hits = {} THEN 0 ELSE CHOOSE i \in hits : \A j \in hits : i <= j
\* The list without its entry at position idx (splice(idx, 1)).
Splice(list, idx) == [i \in 1..(Len(list) - 1) |-> IF i < idx THEN list[i] ELSE list[i + 1]]
\* messages.find((m) => m.id === id)
FindMessage(list, id) == {list[i] : i \in {j \in 1..Len(list) : list[j].id = id}}
\* The ids of the listed messages.
ListedIds(list) == {list[i].id : i \in 1..Len(list)}

\* The screen once its effects have run: history is loaded (empty), the
\* socket listeners are registered and joinRoom is emitted.
ScreenMounted ==
    [ScreenInit EXCEPT !.listening = TRUE,
                       !.outbox = <<Emission("joinRoom", JoinTo(R1))>>]

\* A socket event named ev is next for its listener.
Arrived(ev) ==
    /\ screen.listening
    /\ screen.inbox # << >>
    /\ Head(screen.inbox).ev = ev
\* The event's payload.
Evt == Head(screen.inbox).data

\* handleNewMessage: the list after the event.
reconcileNewMessage(prev, evt) ==
    LET finalMessage == serverEventToChatMessage(evt)
        idx == findIndexPending(prev)
    IN  IF evt.senderId = LocalUser /\ idx # 0
        THEN [prev EXCEPT ![idx] = finalMessage]
        ELSE <<finalMessage>> \o prev

\* socket.on('newMessage', handleNewMessage)
HandleNewMessage ==
    /\ Arrived("newMessage")
    /\ screen' = [screen EXCEPT !.inbox = Tail(@),
                                !.messages = reconcileNewMessage(@, Evt)]
    /\ UNCHANGED <<serverVars, dict, recorder, refine>>

\* A failure handler that removes the oldest pending entry.
removeFailed_Oldest(prev) ==
    LET hits == {i \in 1..Len(prev) : IsPending(prev[i])}
    IN  IF hits = {} THEN prev
        ELSE Splice(prev, CHOOSE i \in hits : \A j \in hits : i >= j)

\* handleMessageFailed: the list after the event.
removeFailed(prev) ==
    LET idx == findIndexPending(prev)
    IN  IF idx = 0 THEN prev ELSE Splice(prev, idx)

\* socket.on('messageFailed', handleMessageFailed)
HandleMessageFailed ==
    /\ Arrived("messageFailed")
    /\ screen' = [screen EXCEPT !.inbox = Tail(@), !.messages = removeFailed(@)]
    /\ UNCHANGED <<serverVars, dict, recorder, refine>>

\* socket.on('messagesDeleted', handleMessagesDeleted)
HandleMessagesDeleted ==
    LET ids == Range(Evt.messageIds)
        Kept(m) == m.id \notin ids
    IN  /\ Arrived("messagesDeleted")
        /\ screen' = [screen EXCEPT !.inbox = Tail(@),
                                    !.messages = SelectSeq(@, Kept)]
        /\ UNCHANGED <<serverVars, dict, recorder, refine>>

\* socket.on('deleteFailed', handleDeleteFailed): an alert only.
HandleDeleteFailed ==
    /\ Arrived("deleteFailed")
    /\ screen' = [screen EXCEPT !.inbox = Tail(@)]
    /\ UNCHANGED <<serverVars, dict, recorder, refine>>

\* History: the messages, as they were before the edit, of the edits the
\* screen has emitted and the server has not answered yet, oldest first; `edits` after the server's
\* answer about message id.
Answered(edits, id) ==
    LET hits == {i \in 1..Len(edits) : edits[i].id = id}
    IN  IF hits = {} THEN edits
        ELSE Splice(edits, CHOOSE i \in hits : \A j \in hits : i <= j)

\* socket.on('messageEdited', handleMessageEdited)
HandleMessageEdited ==
    LET evt == Evt
        ref == screen.editOriginalRef
        Edited(m) == IF m.id = evt.messageId
                     THEN [m EXCEPT !.rawContent = evt.newContent,
                                    !.translations = evt.translations,
                                    !.confidenceScore = evt.confidenceScore,
                                    !.isEdited = TRUE, !.isRetrying = FALSE]
                     ELSE m
    IN  /\ Arrived("messageEdited")
        /\ screen' = [screen EXCEPT
              !.inbox = Tail(@),
              !.sentEdits = Answered(@, evt.messageId),
              !.editOriginalRef = IF ref # None /\ The(ref).id = evt.messageId
                                  THEN None ELSE @,
              !.messages = [i \in 1..Len(@) |-> Edited(@[i])]]
        /\ UNCHANGED <<serverVars, dict, recorder, refine>>


\* handleEditFailed: the screen after the event.  The server echoes the
\* request's messageId value.
rollbackEdit(scr, evt) ==
    LET ref == scr.editOriginalRef
        snapshot == The(ref)
        Restored(m) == IF m.id = snapshot.id
                       THEN [m EXCEPT !.rawContent = snapshot.rawContent,
                                      !.translations = snapshot.translations,
                                      !.confidenceScore = snapshot.confidenceScore,
                                      !.isRetrying = FALSE]
                       ELSE m
    IN  IF ref # None /\ S(snapshot.id) = evt.messageId
        THEN [scr EXCEPT !.messages = [i \in 1..Len(@) |-> Restored(@[i])],
                         !.editOriginalRef = None]
        ELSE scr

\* socket.on('editFailed', handleEditFailed)
HandleEditFailed ==
    /\ Arrived("editFailed")
    /\ screen' = rollbackEdit(
                    [screen EXCEPT !.inbox = Tail(@),
                                   !.sentEdits = IF IsString(Evt.messageId)
                                                 THEN Answered(@, Evt.messageId.val) ELSE @],
                    Evt)
    /\ UNCHANGED <<serverVars, dict, recorder, refine>>

\* The events the screen registers a listener for.
ListenedEvents ==
    {"newMessage", "messageFailed", "messagesDeleted", "deleteFailed",
     "messageEdited", "editFailed"}

\* An event nothing listens for (error, roomJoined) is dropped by the
\* socket.
DropUnlistened ==
    /\ screen.listening
    /\ screen.inbox # << >>
    /\ Head(screen.inbox).ev \notin ListenedEvents
    /\ screen' = [screen EXCEPT !.inbox = Tail(@)]
    /\ UNCHANGED <<serverVars, dict, recorder, refine>>

\* The sendMessage payload of a TEXT submission.
TextPayload(g, text) == SendPayload(S(g), S(TypeText("TEXT")), S(text), Undefined, Undefined)

\* handleSendMessage for a TEXT payload: the optimistic entry is prepended
\* and sendMessage is emitted.  ChatInput is rendered only outside the edit
\* and selection modes.
HandleSendMessage(text) ==
    LET optimisticMessage ==
            ChatMessage(Uuid(screen.uuids + 1), LocalUser, "TEXT", text, None, None, TRUE)
    IN  /\ screen.listening
        /\ screen.editingMessageId = None /\ ~screen.selectionMode
        /\ screen.uuids < MaxSends
        /\ screen' = [screen EXCEPT
              !.uuids = @ + 1,
              !.messages = <<optimisticMessage>> \o @,
              !.outbox = Append(@, Emission("sendMessage", TextPayload(R1, text)))]
        /\ UNCHANGED <<serverVars, dict, recorder, refine>>

\* The list with exactly the entries of ids marked selected.
Marked(list, ids) == [i \in 1..Len(list) |-> [list[i] EXCEPT !.isSelected = list[i].id \in ids]]

\* handleLongPress, from the bubble's Pressable.
HandleLongPress(messageId) ==
    /\ screen.listening
    /\ messageId \in ListedIds(screen.messages)
    /\ screen' = [screen EXCEPT !.selectionMode = TRUE,
                                !.selectedIds = {messageId},
                                !.messages = Marked(@, {messageId})]
    /\ UNCHANGED <<serverVars, dict, recorder, refine>>

\* handleToggleSelect: the bubble passes a tap on only in selection mode.
HandleToggleSelect(messageId) ==
    LET next == IF messageId \in screen.selectedIds
                THEN screen.selectedIds \ {messageId}
                ELSE screen.selectedIds \cup {messageId}
        Toggled(m) == IF m.id = messageId
                      THEN [m EXCEPT !.isSelected = messageId \in next] ELSE m
    IN  /\ screen.listening
        /\ screen.selectionMode
        /\ messageId \in ListedIds(screen.messages)
        /\ screen' = [screen EXCEPT !.selectedIds = next,
                                    !.messages = [i \in 1..Len(@) |-> Toggled(@[i])]]
        /\ UNCHANGED <<serverVars, dict, recorder, refine>>

\* exitSelectionMode: the screen after it.
exitSelectionMode(scr) ==
    [scr EXCEPT !.selectionMode = FALSE, !.selectedIds = {},
                !.messages = Marked(@, {})]

\* The close button of the selection header.
ExitSelectionMode ==
    /\ screen.listening
    /\ screen.selectionMode
    /\ screen' = exitSelectionMode(screen)
    /\ UNCHANGED <<serverVars, dict, recorder, refine>>

\* Every selected id is a confirmed message of the local user: the delete
\* button is rendered.
CanDelete ==
    /\ screen.selectionMode
    /\ screen.selectedIds # {}
    /\ \A id \in screen.selectedIds :
          \E m \in FindMessage(screen.messages, id) :
              m.senderId = LocalUser /\ ~m.isOptimistic

\* The orders in which a set's ids may be listed.
Listings(ids) ==
    {o \in [1..Cardinality(ids) -> ids] :
        \A i, j \in 1..Cardinality(ids) : i # j => o[i] # o[j]}

\* handleDelete, confirmed in the alert.
HandleDelete ==
    LET Kept(m) == m.id \notin screen.selectedIds
    IN  /\ screen.listening
        /\ CanDelete
        /\ \E ids \in Listings(screen.selectedIds) :
              screen' = [exitSelectionMode(screen) EXCEPT
                 !.messages = Marked(SelectSeq(screen.messages, Kept), {}),
                 !.outbox = Append(@, Emission("deleteMessages",
                                               DeletePayload(S(R1), A(ids))))]
        /\ UNCHANGED <<serverVars, dict, recorder, refine>>

\* One confirmed TEXT message of the local user is selected: the edit
\* button is rendered.
CanStartEdit ==
    /\ screen.selectionMode
    /\ Cardinality(screen.selectedIds) = 1
    /\ \E id \in screen.selectedIds :
          \E m \in FindMessage(screen.messages, id) :
              m.senderId = LocalUser /\ m.contentType = "TEXT" /\ ~m.isOptimistic

\* The rollback snapshot of a message.
Snapshot(msg) ==
    [id |-> msg.id, rawContent |-> msg.rawContent,
     translations |-> msg.translations, confidenceScore |-> msg.confidenceScore]

\* History: what handleConfirmEdit overwrites on the message, the flags
\* included.
Original(msg) == Snapshot(msg) @@ [isEdited |-> msg.isEdited, isRetrying |-> msg.isRetrying]

\* handleStartEdit
HandleStartEdit ==
    /\ screen.listening
    /\ CanStartEdit
    /\ \E messageId \in screen.selectedIds :
          \E msg \in FindMessage(screen.messages, messageId) :
             screen' = [exitSelectionMode(screen) EXCEPT
                           !.editOriginalRef = Some(Snapshot(msg)),
                           !.editingMessageId = Some(messageId)]
    /\ UNCHANGED <<serverVars, dict, recorder, refine>>

\* handleCancelEdit: the screen after it.
cancelEdit(scr) == [scr EXCEPT !.editingMessageId = None, !.editOriginalRef = None]

\* handleCancelEdit, from the EditMessageBar.
HandleCancelEdit ==
    /\ screen.listening
    /\ screen.editingMessageId # None
    /\ screen' = cancelEdit(screen)
    /\ UNCHANGED <<serverVars, dict, recorder, refine>>

\* handleConfirmEdit, from the EditMessageBar.
HandleConfirmEdit(newText) ==
    LET editingMessageId == The(screen.editingMessageId)
        found == FindMessage(screen.messages, editingMessageId)
        msg == CHOOSE m \in found : TRUE
        trimmed == Trim(newText)
        Updated(m) == IF m.id = editingMessageId
                      THEN [m EXCEPT !.rawContent = trimmed, !.translations = None,
                                     !.confidenceScore = None, !.isRetrying = TRUE,
                                     !.isEdited = TRUE]
                      ELSE m
    IN  /\ screen.listening
        /\ screen.editingMessageId # None
        /\ screen' =
              IF found = {} \/ StrLen(trimmed) = 0 THEN screen
              ELSE IF trimmed = Trim(msg.rawContent) THEN cancelEdit(screen)
              ELSE [screen EXCEPT
                      !.messages = [i \in 1..Len(@) |-> Updated(@[i])],
                      !.editingMessageId = None,
                      !.sentEdits = Append(@, Original(msg)),
                      !.outbox = Append(@, Emission("editMessage",
                                    EditPayload(S(R1), S(editingMessageId), S(trimmed))))]
        /\ UNCHANGED <<serverVars, dict, recorder, refine>>

\* The hardwareBackPress listener while a mode is on.
HardwareBackPress ==
    /\ screen.listening
    /\ screen.editingMessageId # None \/ screen.selectionMode
    /\ screen' = IF screen.editingMessageId # None
                 THEN cancelEdit(screen)
                 ELSE [screen EXCEPT !.selectionMode = FALSE, !.selectedIds = {}]
    /\ UNCHANGED <<serverVars, dict, recorder, refine>>

\* ------------------------------------------------------ specifications
MembershipSteps ==
    \E i \in RemoveInputs : RemoveMember(i[1], i[2], i[3])

JoinSteps ==
    \E c \in Conns : JoinRoomJoin(c)

SendSteps ==
    \/ \E c \in Conns : SendTranslateOk(c)
    \/ \E c \in Conns : SendTranslateFail(c)
    \/ \E c \in Conns : SendSave(c)
    \/ \E c \in Conns : SendBroadcast(c)

AudioSteps ==
    \/ \E c \in Conns : AudioTranslateOk(c)
    \/ \E c \in Conns : AudioTranslateFail(c)
    \/ \E c \in Conns : AudioSave(c)
    \/ \E c \in Conns : AudioBroadcast(c)

DeleteSteps ==
    \/ \E c \in Conns : DeleteFind(c)
    \/ \E c \in Conns : DeleteRemove(c)
    \/ \E c \in Conns : DeleteEmit(c)

EditSteps ==
    \/ \E c \in Conns : EditMember(c)
    \/ \E c \in Conns : EditMemberFail(c)
    \/ \E c \in Conns : EditLoad(c)
    \/ \E c \in Conns : EditPersist(c)
    \/ \E c \in Conns : EditTranslateOk(c)
    \/ \E c \in Conns : EditTranslateFail(c)
    \/ \E c \in Conns : EditUpdate(c)
    \/ \E c \in Conns : EditEmit(c)

RetranslateSteps ==
    \/ \E c \in Conns : RetranslateMember(c)
    \/ \E c \in Conns : RetranslateTranslateOk(c)
    \/ \E c \in Conns : RetranslateTranslateFail(c)
    \/ \E c \in Conns : RetranslateUpdate(c)
    \/ \E c \in Conns : RetranslateReply(c)

\* Joining rooms while memberships change.
NextJoin ==
    \/ MembershipSteps
    \/ \E c \in Conns, p \in JoinPayloads : JoinRoomCheck(c, p)
    \/ JoinSteps

SpecJoin == Init /\ [][NextJoin]_vars

\* Submissions over the socket and the audio route.
SendInputs == {TextTo(R1), TextTo(R2)}
AudioInputs == {AudioBody(S(R1), Recording), AudioBody(S(R2), Recording)}

NextSend ==
    \/ MembershipSteps
    \/ \E c \in Conns, p \in {JoinTo(R1), JoinTo(R2)} : JoinRoomCheck(c, p)
    \/ JoinSteps
    \/ \E c \in Conns, p \in SendInputs : SendMessageBegin(c, p)
    \/ SendSteps
    \/ \E c \in Conns, b \in AudioInputs : ProcessAudioBegin(c, b)
    \/ AudioSteps

SpecSend == Init /\ [][NextSend]_vars

\* Deleting messages.
DeleteInputs ==
    {DeletePayload(S(g), A(ids)) :
        g \in RoomIds, ids \in {<<Id(1)>>, <<Id(2)>>, <<Id(1), Id(2)>>}}
    \cup {DeletePayload(S(R1), A(<< >>))}

NextDelete ==
    \/ MembershipSteps
    \/ \E c \in Conns : JoinRoomCheck(c, JoinTo(R1))
    \/ JoinSteps
    \/ \E c \in Conns : SendMessageBegin(c, TextTo(R1))
    \/ SendSteps
    \/ \E c \in Conns, p \in DeleteInputs : DeleteBegin(c, p)
    \/ DeleteSteps

SpecDelete == Init /\ [][NextDelete]_vars

\* Editing messages.
EditInputs ==
    {EditPayload(S(R1), S(Id(1)), S(TextB)),
     EditPayload(S(R1), S(Id(1)), S(Blank \o TextB \o Blank)),
     EditPayload(S(R1), S(Id(1)), S(TextA)),
     EditPayload(S(R2), S(Id(1)), S(TextB))}

NextEdit ==
    \/ Tick
    \/ \E c \in Conns, p \in {TextTo(R1), ImageTo(R1)} : SendMessageBegin(c, p)
    \/ SendSteps
    \/ \E c \in Conns, p \in EditInputs : EditBegin(c, p)
    \/ \E c \in Conns, p \in EditInputs : EditLookupFail(c, p)
    \/ EditSteps

SpecEdit == InitWith(MaxMsgsDeep) /\ [][NextEdit]_vars

FanoutSteps ==
    \/ \E id \in MsgIds : FanoutMembers(id) \/ FanoutFail(id) \/ FanoutSockets(id)
    \/ \E id \in MsgIds, outcome \in PushOutcomes : FanoutSend(id, outcome)

\* Messages sent to a room whose members register and clear push
\* addresses and come and go from the room's sockets.
NextNotify ==
    \/ \E c \in Conns : JoinRoomCheck(c, JoinTo(R1))
    \/ JoinSteps
    \/ \E u \in Users : \E token \in {ExpoToken(u), ForeignToken} : RegisterToken(u, token)
    \/ \E u \in Users : ClearToken(u)
    \/ SendMessageBegin("c1", TextTo(R1))
    \/ SendSteps
    \/ FanoutSteps

SpecNotify == InitWith(MaxMsgsDeep) /\ [][NextNotify]_vars

\* The handshakes a socket of user u may present.
HandshakeInputs(u) ==
    {Handshake(Undefined, Undefined, Undefined),
     Handshake(S(Blank), Undefined, Undefined),
     Handshake(Undefined, Undefined, S(Bearer)),
     Handshake(S(Forged), Undefined, Undefined),
     Handshake(S(Forged), S(Jwt(u)), Undefined),
     Handshake(S(Jwt(u)), Undefined, Undefined),
     Handshake(S(Blank), Undefined, S(Bearer \o Jwt(u)))}

\* Sockets connect with any handshake and send every kind of request.
NextAuth ==
    \/ \E c \in Conns : \E h \in HandshakeInputs(UserOf(c)) : HandleConnection(c, h)
    \/ \E c \in Conns : HandleConnectionVerify(c)
    \/ \E c \in Conns, event \in GuardedEvents : GuardReject(c, event)
    \/ \E c \in Conns : JoinRoomCheck(c, JoinTo(R1))
    \/ JoinSteps
    \/ \E c \in Conns : SendMessageBegin(c, TextTo(R1))
    \/ SendSteps
    \/ \E c \in Conns : EditBegin(c, EditPayload(S(R1), S(Id(1)), S(TextB)))
    \/ EditSteps
    \/ \E c \in Conns : DeleteBegin(c, DeletePayload(S(R1), A(<<Id(1)>>)))
    \/ DeleteSteps

SpecAuth == InitOf(MaxMsgsDeep, [c \in Conns |-> Unconnected]) /\ [][NextAuth]_vars

\* A newMessage announcement of a TEXT message as it reaches the screen.
Announced(id, u, text) ==
    ToClient(LocalConn, "newMessage",
             [messageId |-> id, senderId |-> u, contentType |-> "TEXT",
              originalText |-> Some(text), translations |-> Some([src |-> text]),
              confidenceScore |-> 90])
\* The announcements and failure notices the server may emit while the
\* local user and a peer send messages.
SendEvents ==
    {Announced(id, u, TextA) : id \in {Id(1), Id(2)}, u \in Users}
    \cup {ToClient(LocalConn, "messageFailed", [reason |-> "Please update your app"]),
          WsError(LocalConn, "Forbidden")}
\* The events the server may emit about the local user's two messages.
ChangeEvents ==
    {Announced(Id(1), LocalUser, TextA),
     Announced(Id(2), LocalUser, TextB),
     ToClient(LocalConn, "messagesDeleted", [messageIds |-> <<Id(1)>>, deletedBy |-> LocalUser]),
     ToClient(LocalConn, "deleteFailed", [reason |-> "Forbidden"]),
     ToClient(LocalConn, "messageEdited",
              [messageId |-> Id(1), newContent |-> TextB,
               translations |-> Some([src |-> TextB]), confidenceScore |-> Some(90),
               isEdited |-> TRUE]),
     EditFailed(LocalConn, S(Id(1)), "Forbidden")}

\* The server emits an event to the screen's socket.  A message is
\* announced once, and editFailed answers an edit request the server has
\* taken from this socket.
Receive(e) ==
    /\ screen.listening
    /\ screen.inbox = << >>
    /\ e.ev = "newMessage" => e.data.messageId \notin ListedIds(screen.messages)
    /\ e.ev = "editFailed" =>
          /\ screen.outbox = << >>
          /\ \E i \in 1..Len(screen.sentEdits) : S(screen.sentEdits[i].id) = e.data.messageId
    /\ screen' = [screen EXCEPT !.inbox = Append(@, e)]
    /\ UNCHANGED <<serverVars, dict, recorder, refine>>

\* The server takes the next request the screen's socket has sent.
Transmit ==
    /\ screen.outbox # << >>
    /\ screen' = [screen EXCEPT !.outbox = Tail(@)]
    /\ UNCHANGED <<serverVars, dict, recorder, refine>>

\* Every socket is established and the screen is mounted.
InitScreen == InitAll(MaxMsgs, [c \in Conns |-> Established(c)], ScreenMounted)

\* The local user sends messages while the server announces messages and
\* reports failures.
NextReconcile ==
    \/ \E e \in SendEvents : Receive(e)
    \/ Transmit
    \/ \E text \in {TextA, TextB} : HandleSendMessage(text)
    \/ HandleNewMessage
    \/ HandleMessageFailed
    \/ DropUnlistened

SpecReconcile == InitScreen /\ [][NextReconcile]_vars

\* The local user selects, edits and deletes messages while the server
\* reports on them.  The server takes a request before the user acts again.
NextModes ==
    \/ \E e \in ChangeEvents : Receive(e)
    \/ Transmit
    \/ HandleNewMessage
    \/ HandleMessagesDeleted
    \/ HandleDeleteFailed
    \/ HandleMessageEdited
    \/ HandleEditFailed
    \/ \E id \in {Id(1), Id(2)} : HandleLongPress(id)
    \/ \E id \in {Id(1), Id(2)} : HandleToggleSelect(id)
    \/ ExitSelectionMode
    \/ screen.outbox = << >> /\ HandleDelete
    \/ HandleStartEdit
    \/ HandleCancelEdit
    \/ \E newText \in {TextA, TextB \o Blank, Blank} :
          /\ screen.outbox = << >>
          /\ Len(screen.sentEdits) < MaxEdits
          /\ HandleConfirmEdit(newText)
    \/ HardwareBackPress

SpecModes == InitScreen /\ [][NextModes]_vars

\* The payload of the request at the head of what the screen's socket has
\* sent, when that request is an ev.
NextRequest(ev) ==
    IF screen.outbox # << >> /\ Head(screen.outbox).ev = ev
    THEN {Head(screen.outbox).payload} ELSE {}

\* The screen of the local user against the gateway: the gateway handles
\* what the screen's socket sends, in order, and the screen's listeners
\* handle what the gateway emits to it.
NextChat ==
    \/ \E payload \in NextRequest("joinRoom") : JoinRoomCheck(LocalConn, payload)
    \/ JoinSteps
    \/ \E payload \in NextRequest("sendMessage") : SendMessageBegin(LocalConn, payload)
    \/ SendSteps
    \/ \E text \in {TextA, TextB} : HandleSendMessage(text)
    \/ HandleNewMessage
    \/ DropUnlistened

SpecChat == InitScreen /\ [][NextChat]_vars

\* historyToChatMessage
historyToChatMessage(msg) ==
    [ChatMessage(msg.id, msg.senderId, msg.contentType, msg.rawContent,
                 msg.translations, msg.confidenceScore, FALSE)
        EXCEPT !.isEdited = msg.isEdited]

\* The screen as it mounts: the history request is on its way, the socket
\* listeners are registered and joinRoom is emitted.
ScreenOpening == [ScreenMounted EXCEPT !.history = [pc |-> "request", data |-> << >>]]

\* GET /chat/groups/:groupId/messages?limit=50: the server reads the page
\* and the response is on its way.
HistoryServe ==
    /\ screen.history.pc = "request"
    /\ \E data \in getPaginatedHistory(R1, 1, HistoryLimit) :
          screen' = [screen EXCEPT !.history = [pc |-> "response", data |-> data]]
    /\ UNCHANGED <<serverVars, dict, recorder, refine>>

\* The history effect after its await: setMessages(data.map(...)).
HistoryLoad ==
    /\ screen.history.pc = "response"
    /\ screen' = [screen EXCEPT
                    !.messages = [i \in 1..Len(screen.history.data) |->
                                     historyToChatMessage(screen.history.data[i])],
                    !.history = [pc |-> "done", data |-> << >>]]
    /\ UNCHANGED <<serverVars, dict, recorder, refine>>

InitHistory == InitAll(MaxMsgs, [c \in Conns |-> Established(c)], ScreenOpening)

\* The screen opens on r1 while a peer sends messages to the room.
NextHistory ==
    \/ \E payload \in NextRequest("joinRoom") : JoinRoomCheck(LocalConn, payload)
    \/ JoinSteps
    \/ SendMessageBegin("c2", TextTo(R1))
    \/ SendSteps
    \/ HistoryServe
    \/ HistoryLoad
    \/ HandleNewMessage
    \/ DropUnlistened

SpecHistory == InitHistory /\ [][NextHistory]_vars

\* ------------------------------------------------- ChatInput (mobile)
\* The number of recordings the user starts.
MaxRecordings == 2
\* SILENCE_THRESHOLD_DB, in dBFS
SilenceThresholdDb == 0 - 45
\* The shortest recording that is sent, in milliseconds.
MinDurationMs == 500
\* The metering levels the recorder reports: below, at and above the
\* threshold.
Levels == {0 - 60, SilenceThresholdDb, 0 - 30}
\* The durations the recorder reports.
Durations == {400, 900}

\* Math.max(...history)
Peak(history) == CHOOSE l \in history : \A k \in history : l >= k

\* The component after mounting.  starts and stops hold the invocations of
\* handleStartRecording and handleStopRecording that are at an await;
\* session numbers the recordings the native recorder has begun; sampled,
\* cancelled, flagged and sent are history.
RecorderMounted ==
    [mounted |-> TRUE, isRecording |-> FALSE, isSending |-> FALSE,
     isCancelled |-> FALSE, duration |-> 0, meteringHistory |-> {},
     pressed |-> 0, session |-> 0,
     starts |-> [permission |-> 0, prepare |-> 0], stops |-> {},
     sampled |-> << >>, cancelled |-> {}, flagged |-> {}, sent |-> {}]

\* The microphone button is rendered (nothing is being encoded).
MicShown == recorder.mounted /\ ~recorder.isSending

\* handleStartRecording up to the permission request: onLongPress of the
\* microphone button, past the double-trigger guard.
StartRecordingBegin ==
    /\ MicShown
    /\ ~recorder.isRecording
    /\ recorder.pressed < MaxRecordings
    /\ recorder' = [recorder EXCEPT !.pressed = @ + 1, !.starts.permission = @ + 1]
    /\ UNCHANGED <<serverVars, dict, screen, refine>>

\* handleStartRecording: permission is granted and the audio mode set; the
\* refs of the new session are reset.
StartRecordingReset ==
    /\ recorder.starts.permission > 0
    /\ recorder' = [recorder EXCEPT !.starts.permission = @ - 1,
                                    !.starts.prepare = @ + 1,
                                    !.isCancelled = FALSE,
                                    !.duration = 0,
                                    !.meteringHistory = {}]
    /\ UNCHANGED <<serverVars, dict, screen, refine>>

\* handleStartRecording: permission is refused or the audio mode cannot be
\* set; the handler ends with an alert.
StartRecordingDenied ==
    /\ recorder.starts.permission > 0
    /\ recorder' = [recorder EXCEPT !.starts.permission = @ - 1]
    /\ UNCHANGED <<serverVars, dict, screen, refine>>

\* handleStartRecording: the recorder is prepared and record() begins a
\* recording.
StartRecordingRecord ==
    /\ recorder.starts.prepare > 0
    /\ recorder' = [recorder EXCEPT
          !.starts.prepare = @ - 1,
          !.session = @ + 1,
          !.sampled = [k \in 1..(recorder.session + 1) |->
                          IF k <= recorder.session THEN recorder.sampled[k] ELSE {}],
          !.isRecording = TRUE]
    /\ UNCHANGED <<serverVars, dict, screen, refine>>

\* The effect on recorderState while recording: the duration is mirrored
\* and the metering sample, when the recorder reports one, is collected.
Meter(durationMillis, metering) ==
    /\ recorder.isRecording
    /\ durationMillis > recorder.duration
    /\ recorder' = [recorder EXCEPT
          !.duration = durationMillis,
          !.meteringHistory = @ \cup metering,
          !.sampled[recorder.session] = @ \cup metering]
    /\ UNCHANGED <<serverVars, dict, screen, refine>>

\* handleCancelRecording, from the Cancel button of the recording bar (shown
\* while recording).  What follows its first await reaches the native
\* recorder only.
HandleCancelRecording ==
    /\ recorder.mounted
    /\ recorder.isRecording /\ ~recorder.isSending
    /\ recorder' = [recorder EXCEPT !.isCancelled = TRUE,
                                    !.isRecording = FALSE,
                                    !.cancelled = @ \cup {recorder.session}]
    /\ UNCHANGED <<serverVars, dict, screen, refine>>

\* handleStopRecording up to recorder.stop(): onPressOut of the microphone
\* button while a recording runs.
StopRecordingBegin ==
    /\ MicShown
    /\ recorder.isRecording
    /\ recorder' = [recorder EXCEPT
          !.isRecording = FALSE,
          !.stops = @ \cup {[session |-> recorder.session,
                             capturedDuration |-> recorder.duration,
                             pc |-> "stop"]}]
    /\ UNCHANGED <<serverVars, dict, screen, refine>>

\* A silence guard that lets every recording through.

\* The client-side silence guard rejects the collected samples.
TooQuiet(history) == history # {} /\ Peak(history) < SilenceThresholdDb

\* A stop handler that does not look at the cancel flag.

\* handleStopRecording after recorder.stop(): what the checks decide.
StopOutcome(h) ==
    IF recorder.isCancelled THEN "cancelled"
    ELSE IF h.capturedDuration < MinDurationMs THEN "short"
    ELSE IF TooQuiet(recorder.meteringHistory) THEN "quiet"
    ELSE "encode"

\* handleStopRecording from recorder.stop() to the read of the file: the
\* cancel, duration and silence checks.  A return runs the finally block.
StopRecordingCheck(h) ==
    LET outcome == StopOutcome(h)
    IN  /\ h \in recorder.stops /\ h.pc = "stop"
        /\ recorder' =
              IF outcome = "encode"
              THEN [recorder EXCEPT !.isSending = TRUE,
                                    !.stops = (@ \ {h}) \cup {[h EXCEPT !.pc = "encode"]}]
              ELSE [recorder EXCEPT
                      !.isSending = FALSE,
                      !.stops = @ \ {h},
                      !.isCancelled = IF outcome = "cancelled" THEN FALSE ELSE @,
                      !.flagged = IF outcome = "cancelled" THEN @ \cup {h.session} ELSE @]
        /\ UNCHANGED <<serverVars, dict, screen, refine>>

\* handleStopRecording: recorder.stop() throws, or the recorder has no file;
\* the handler ends with an alert.
StopRecordingFail(h) ==
    /\ h \in recorder.stops
    /\ recorder' = [recorder EXCEPT !.isSending = FALSE, !.stops = @ \ {h}]
    /\ UNCHANGED <<serverVars, dict, screen, refine>>

\* handleStopRecording: the file is read and passed to onSendMessage.
StopRecordingSend(h) ==
    /\ h \in recorder.stops /\ h.pc = "encode"
    /\ recorder' = [recorder EXCEPT !.isSending = FALSE,
                                    !.stops = @ \ {h},
                                    !.sent = @ \cup {h.session}]
    /\ UNCHANGED <<serverVars, dict, screen, refine>>

\* The chat input is mounted.
InitRecorder ==
    /\ InitServer(MaxMsgs, [c \in Conns |-> Established(c)])
    /\ dict = DictInit
    /\ screen = ScreenInit
    /\ recorder = RecorderMounted
    /\ refine = RefineInit

\* The user records, releases and cancels while the handlers' awaits
\* complete in any order.
NextRecorder ==
    \/ StartRecordingBegin
    \/ StartRecordingReset
    \/ StartRecordingDenied
    \/ StartRecordingRecord
    \/ \E d \in Durations, metering \in {{}} \cup {{l} : l \in Levels} : Meter(d, metering)
    \/ HandleCancelRecording
    \/ StopRecordingBegin
    \/ \E h \in recorder.stops : StopRecordingCheck(h)
    \/ \E h \in recorder.stops : StopRecordingFail(h)
    \/ \E h \in recorder.stops : StopRecordingSend(h)

SpecRecorder == InitRecorder /\ [][NextRecorder]_vars

\* -------------------------------------------- MagicRefineModal (mobile)
\* refine.requests holds the calls of refineText that have not settled;
\* refinedText and error carry the id of the request whose outcome they
\* show.  issued counts the requests, closed collects the requests that were
\* in flight when their modal was dismissed (both are history, not state of
\* the component).
MaxRequests == 2
RefineModes == {"professional", "singlish", "tanglish"}

RefineRequest(id, mode) == [id |-> id, mode |-> mode, aborted |-> FALSE]

\* AbortController.abort() on the controller the ref holds, if any.
abortCurrent(rf) == {IF r.id \in rf.abortController THEN [r EXCEPT !.aborted = TRUE] ELSE r : r \in rf.requests}

\* The magic button of the input bar: setShowMagicModal(true), and the
\* modal's effect on visible resets its state for a fresh open.
OpenMagicModal ==
    /\ ~refine.visible
    /\ refine' = [refine EXCEPT !.visible = TRUE, !.isAnimatingOut = FALSE,
                                !.refinedText = None, !.error = None,
                                !.selectedMode = None]
    /\ UNCHANGED <<serverVars, dict, screen, recorder>>

fetchRefined(rf, mode) ==
    [rf EXCEPT !.requests = abortCurrent(rf) \cup {RefineRequest(rf.issued + 1, mode)},
               !.abortController = Some(rf.issued + 1),
               !.issued = rf.issued + 1,
               !.isLoading = TRUE, !.error = None, !.refinedText = None]

\* A mode chip is pressed (the chips stay pressable while a request is
\* loading and while the sheet slides out).
HandleModeSelect(mode) ==
    /\ refine.visible
    /\ refine.issued < MaxRequests
    /\ refine' = fetchRefined([refine EXCEPT !.selectedMode = Some(mode)], mode)
    /\ UNCHANGED <<serverVars, dict, screen, recorder>>

\* The retry button, disabled while loading or without a mode.
HandleRetry ==
    /\ refine.visible
    /\ refine.issued < MaxRequests
    /\ ~refine.isLoading
    /\ refine.selectedMode # None
    /\ refine' = fetchRefined(refine, The(refine.selectedMode))
    /\ UNCHANGED <<serverVars, dict, screen, recorder>>

\* The response of a request that was not aborted arrives.
RequestResolve(r) ==
    /\ ~r.aborted
    /\ refine' = [refine EXCEPT !.requests = @ \ {r}, !.refinedText = Some(r.id),
                                !.isLoading = FALSE]
    /\ UNCHANGED <<serverVars, dict, screen, recorder>>

\* A request that was not aborted fails (network, timeout, 429, 5xx).
RequestReject(r) ==
    /\ ~r.aborted
    /\ refine' = [refine EXCEPT !.requests = @ \ {r}, !.error = Some(r.id),
                                !.isLoading = FALSE]
    /\ UNCHANGED <<serverVars, dict, screen, recorder>>

\* An aborted request rejects with a cancellation, which the catch block
\* swallows; the finally block still clears isLoading.
RequestCancelled(r) ==
    /\ r.aborted
    /\ refine' = [refine EXCEPT !.requests = @ \ {r}, !.isLoading = FALSE]
    /\ UNCHANGED <<serverVars, dict, screen, recorder>>

animateOut(rf) ==
    [rf EXCEPT !.isAnimatingOut = TRUE, !.requests = abortCurrent(rf),
               !.abortController = None,
               !.closed = @ \cup {r.id : r \in rf.requests}]

\* Backdrop, close icon or hardware back.
HandleClose ==
    /\ refine.visible
    /\ ~refine.isAnimatingOut
    /\ refine' = animateOut(refine)
    /\ UNCHANGED <<serverVars, dict, screen, recorder>>

\* Replace and Replace & Send, enabled once a refined text is shown.
HandleReplace ==
    /\ refine.visible
    /\ ~refine.isAnimatingOut
    /\ refine.refinedText # None
    /\ ~refine.isLoading
    /\ refine' = [animateOut(refine) EXCEPT !.replaced = refine.refinedText]
    /\ UNCHANGED <<serverVars, dict, screen, recorder>>

\* The slide-out animation finishes and its callback hides the modal.
AnimationFinished ==
    /\ refine.visible
    /\ refine.isAnimatingOut
    /\ refine' = [refine EXCEPT !.visible = FALSE,
                                !.closed = @ \cup {r.id : r \in refine.requests}]
    /\ UNCHANGED <<serverVars, dict, screen, recorder>>

InitRefine ==
    /\ InitServer(MaxMsgs, [c \in Conns |-> Established(c)])
    /\ dict = DictInit
    /\ screen = ScreenInit
    /\ recorder = RecorderInit
    /\ refine = RefineInit

NextRefine ==
    \/ OpenMagicModal
    \/ \E mode \in RefineModes : HandleModeSelect(mode)
    \/ HandleRetry
    \/ \E r \in refine.requests : RequestResolve(r)
    \/ \E r \in refine.requests : RequestReject(r)
    \/ \E r \in refine.requests : RequestCancelled(r)
    \/ HandleClose
    \/ HandleReplace
    \/ AnimationFinished

SpecRefine == InitRefine /\ [][NextRefine]_vars

\* ------------------------------------------- PersonalContextService (api)
\* dict.rows is the personal_context table, dict.cache the service's
\* dictionaryCache, dict.calls the service calls that are awaiting the
\* repository.  returned holds the outcome of the getUserDictionary call that
\* returned in the last step; writes and gets count the calls.
MaxWrites == 2
MaxGets == 2
\* 5 * 60 * 1000 ms, in minutes.
CacheTtlMinutes == 5
MaxDictionaryChars == 1500
\* @MaxLength(500) of standardMeaning.
MaxMeaningLength == 500

SlangWords == {Str("machan", 6)}
Meanings == {Str("friend", 6), Str("m", MaxMeaningLength)}

DictionaryPrefix == Str("User's custom dictionary:", 25) \o Blank
\* `'${entry.slangWord}' means '${entry.standardMeaning}'. `
Fragment(entry) ==
    Str("'", 1) \o entry.slangWord \o Str("' means '", 9) \o entry.standardMeaning
        \o Str("'.", 2) \o Blank

RECURSIVE byCreatedAt(_)
\* order: { createdAt: 'ASC' }
byCreatedAt(set) ==
    IF set = {} THEN << >>
    ELSE LET first == CHOOSE r \in set : \A o \in set : r.createdAt <= o.createdAt
         IN  <<first>> \o byCreatedAt(set \ {first})

\* personalContextRepository.find({ where: { userId }, order })
findEntries(rows, userId) == byCreatedAt({r \in rows : r.userId = userId})

RECURSIVE compileFrom(_, _)
compileFrom(compiled, entries) ==
    IF entries = << >> THEN compiled
    ELSE IF StrLen(compiled) + StrLen(Fragment(Head(entries))) > MaxDictionaryChars
         THEN compiled
         ELSE compileFrom(compiled \o Fragment(Head(entries)), Tail(entries))

\* The compiled dictionary string of a user's entries, oldest first.
compileDictionary(entries) ==
    IF entries = << >> THEN Empty ELSE Trim(compileFrom(DictionaryPrefix, entries))

setCache(d, userId, value) ==
    [d EXCEPT !.cache[userId] = Some([value |-> value, expiry |-> clock + CacheTtlMinutes])]

invalidateCache(d, userId) == [d EXCEPT !.cache[userId] = None]

DictCall(d, op, userId, phase) ==
    [k |-> d.writes + d.gets + 1, op |-> op, userId |-> userId, phase |-> phase,
     entries |-> << >>, entry |-> None]

WriteOps == {"addSlang", "updateEntry", "deleteEntry"}

\* getUserDictionary up to its await: a live cache entry is returned, a
\* missing or expired one starts the repository read.
GetUserDictionaryBegin(userId) ==
    /\ dict.gets < MaxGets
    /\ LET cached == dict.cache[userId]
           counted == [dict EXCEPT !.gets = @ + 1]
       IN  IF cached # None /\ The(cached).expiry > clock
           THEN dict' = [counted EXCEPT !.returned =
                            Some([userId |-> userId, value |-> The(cached).value,
                                  hit |-> TRUE])]
           ELSE dict' = [counted EXCEPT !.returned = None,
                            !.calls = @ \cup {DictCall(dict, "getUserDictionary", userId, "find")}]
    /\ UNCHANGED <<serverVars, screen, recorder, refine>>

\* The store answers the read of a getUserDictionary call.
GetUserDictionaryFind(call) ==
    /\ call.op = "getUserDictionary"
    /\ call.phase = "find"
    /\ dict' = [dict EXCEPT !.returned = None,
                   !.calls = (@ \ {call}) \cup
                       {[call EXCEPT !.phase = "found",
                                     !.entries = findEntries(dict.rows, call.userId)]}]
    /\ UNCHANGED <<serverVars, screen, recorder, refine>>

\* getUserDictionary after its await: compile, cache, return.
GetUserDictionaryCompile(call) ==
    /\ call.op = "getUserDictionary"
    /\ call.phase = "found"
    /\ LET result == compileDictionary(call.entries)
       IN  dict' = [setCache(dict, call.userId, result) EXCEPT
                       !.calls = @ \ {call},
                       !.returned = Some([userId |-> call.userId, value |-> result,
                                          hit |-> FALSE])]
    /\ UNCHANGED <<serverVars, screen, recorder, refine>>

\* addSlang: the row is saved.
AddSlangSave(userId, slangWord, standardMeaning) ==
    /\ dict.writes < MaxWrites
    /\ dict' = [dict EXCEPT !.writes = @ + 1, !.returned = None,
                   !.nextEntry = @ + 1,
                   !.rows = @ \cup {[id |-> dict.nextEntry, userId |-> userId,
                                     slangWord |-> slangWord,
                                     standardMeaning |-> standardMeaning,
                                     createdAt |-> dict.nextEntry]},
                   !.calls = @ \cup {DictCall(dict, "addSlang", userId, "saved")}]
    /\ UNCHANGED <<serverVars, screen, recorder, refine>>

\* findOneByUser({ id, userId })
findOneByUser(rows, id, userId) == {r \in rows : r.id = id /\ r.userId = userId}

\* updateEntry up to the save: a missing entry is a NotFoundException.
UpdateEntryFind(id, userId, standardMeaning) ==
    /\ dict.writes < MaxWrites
    /\ LET entry == findOneByUser(dict.rows, id, userId)
           counted == [dict EXCEPT !.writes = @ + 1, !.returned = None]
       IN  IF entry = None THEN dict' = counted
           ELSE dict' = [counted EXCEPT !.calls = @ \cup
                            {[DictCall(dict, "updateEntry", userId, "found") EXCEPT
                                !.entry = Some([The(entry) EXCEPT
                                              !.standardMeaning = standardMeaning])]}]
    /\ UNCHANGED <<serverVars, screen, recorder, refine>>

\* repository.save(entry): the row with the entry's id is written, and
\* inserted when it is gone.
UpdateEntrySave(call) ==
    /\ call.op = "updateEntry"
    /\ call.phase = "found"
    /\ dict' = [dict EXCEPT !.returned = None,
                   !.rows = {r \in @ : r.id # The(call.entry).id} \cup call.entry,
                   !.calls = (@ \ {call}) \cup {[call EXCEPT !.phase = "saved"]}]
    /\ UNCHANGED <<serverVars, screen, recorder, refine>>

\* deleteEntry up to the remove.
DeleteEntryFind(id, userId) ==
    /\ dict.writes < MaxWrites
    /\ LET entry == findOneByUser(dict.rows, id, userId)
           counted == [dict EXCEPT !.writes = @ + 1, !.returned = None]
       IN  IF entry = None THEN dict' = counted
           ELSE dict' = [counted EXCEPT !.calls = @ \cup
                            {[DictCall(dict, "deleteEntry", userId, "found") EXCEPT
                                !.entry = entry]}]
    /\ UNCHANGED <<serverVars, screen, recorder, refine>>

\* repository.remove(entry)
DeleteEntryRemove(call) ==
    /\ call.op = "deleteEntry"
    /\ call.phase = "found"
    /\ dict' = [dict EXCEPT !.returned = None,
                   !.rows = {r \in @ : r.id # The(call.entry).id},
                   !.calls = (@ \ {call}) \cup {[call EXCEPT !.phase = "saved"]}]
    /\ UNCHANGED <<serverVars, screen, recorder, refine>>

\* The continuation of a write after its save or remove: invalidateCache,
\* and the call returns.
WriteInvalidate(call) ==
    /\ call.op \in WriteOps
    /\ call.phase = "saved"
    /\ dict' = [invalidateCache(dict, call.userId) EXCEPT
                   !.returned = None, !.calls = @ \ {call}]
    /\ UNCHANGED <<serverVars, screen, recorder, refine>>

InitDict ==
    /\ InitServer(MaxMsgs, [c \in Conns |-> Established(c)])
    /\ dict = DictInit
    /\ screen = ScreenInit
    /\ recorder = RecorderInit
    /\ refine = RefineInit

EntryIds == 1 .. MaxWrites

NextDict ==
    \/ \E u \in Users : GetUserDictionaryBegin(u)
    \/ \E call \in dict.calls : GetUserDictionaryFind(call)
    \/ \E call \in dict.calls : GetUserDictionaryCompile(call)
    \/ \E u \in Users, w \in SlangWords, m \in Meanings : AddSlangSave(u, w, m)
    \/ \E id \in EntryIds, u \in Users, m \in Meanings : UpdateEntryFind(id, u, m)
    \/ \E call \in dict.calls : UpdateEntrySave(call)
    \/ \E id \in EntryIds, u \in Users : DeleteEntryFind(id, u)
    \/ \E call \in dict.calls : DeleteEntryRemove(call)
    \/ \E call \in dict.calls : WriteInvalidate(call)
    \/ Tick

SpecDict == InitDict /\ [][NextDict]_vars

\* ------------------------------------------------ GroupsService (rooms)
\* groups.rows is the chat_groups table and groups.calls the findOrCreateDm
\* and addMember calls that are awaiting the repository; issued counts the
\* findOrCreateDm calls and created the rows they inserted.
MaxDmCalls == 2
DmNames == <<"d1", "d2", "d3", "d4">>
\* The primary key the store generates for the n-th direct conversation.
DmId(n) == Str(DmNames[n], 2)

GroupIds == {g.id : g \in groups.rows}

\* chatGroupRepo.findOne({ where: { id, isGroup: false } })
findDm(id) == {g \in groups.rows : g.id = id /\ ~g.isGroup}

DmCall(requesterId, targetUserId) ==
    [k |-> groups.issued + 1, op |-> "findOrCreateDm", requesterId |-> requesterId,
     targetUserId |-> targetUserId, phase |-> "loop",
     remaining |-> {m \in members : m.userId = requesterId}, dm |-> None]

\* findOrCreateDm up to the read of the requester's memberships; a DM with
\* oneself is a ConflictException.
FindOrCreateDmBegin(requesterId, targetUserId) ==
    /\ groups.issued < MaxDmCalls
    /\ IF requesterId = targetUserId
       THEN groups' = [groups EXCEPT !.issued = @ + 1]
       ELSE groups' = [groups EXCEPT !.issued = @ + 1,
                          !.calls = @ \cup {DmCall(requesterId, targetUserId)}]
    /\ lastEmit' = << >>
    /\ screen' = Deliver(lastEmit')
    /\ UNCHANGED <<members, sock, dict, recorder, refine, pushTokens, fanout, pushed, joined, msgs, nextId, clock, ticks, req, bcast, accepted, capacity>>

\* One iteration of the loop over the requester's memberships: the room is
\* looked up as a DM and the target's membership in it is looked up; a hit
\* returns the room.
FindOrCreateDmVisit(call, membership) ==
    /\ call.op = "findOrCreateDm"
    /\ call.phase = "loop"
    /\ membership \in call.remaining
    /\ LET group == findDm(membership.groupId)
       IN  IF group # None /\ isMember(The(group).id, call.targetUserId)
           THEN groups' = [groups EXCEPT !.calls = @ \ {call}]
           ELSE groups' = [groups EXCEPT !.calls = (@ \ {call}) \cup
                              {[call EXCEPT !.remaining = @ \ {membership}]}]
    /\ lastEmit' = << >>
    /\ screen' = Deliver(lastEmit')
    /\ UNCHANGED <<members, sock, dict, recorder, refine, pushTokens, fanout, pushed, joined, msgs, nextId, clock, ticks, req, bcast, accepted, capacity>>

\* No existing DM was found: the room row is saved.
FindOrCreateDmCreate(call) ==
    /\ call.op = "findOrCreateDm"
    /\ call.phase = "loop"
    /\ call.remaining = {}
    /\ groups' = [groups EXCEPT !.created = @ + 1,
                     !.rows = @ \cup {[id |-> DmId(groups.created + 1), isGroup |-> FALSE]},
                     !.calls = (@ \ {call}) \cup
                         {[call EXCEPT !.phase = "members",
                                       !.dm = Some(DmId(groups.created + 1))]}]
    /\ lastEmit' = << >>
    /\ screen' = Deliver(lastEmit')
    /\ UNCHANGED <<members, sock, dict, recorder, refine, pushTokens, fanout, pushed, joined, msgs, nextId, clock, ticks, req, bcast, accepted, capacity>>

\* The two memberships of the new room are saved, and the room is returned.
FindOrCreateDmMembers(call) ==
    /\ call.op = "findOrCreateDm"
    /\ call.phase = "members"
    /\ members' = members \cup {Member(The(call.dm), call.requesterId, "member"),
                                Member(The(call.dm), call.targetUserId, "member")}
    /\ groups' = [groups EXCEPT !.calls = @ \ {call}]
    /\ lastEmit' = << >>
    /\ screen' = Deliver(lastEmit')
    /\ UNCHANGED <<sock, dict, recorder, refine, pushTokens, fanout, pushed, joined, msgs, nextId, clock, ticks, req, bcast, accepted, capacity>>

\* addMember up to the save: the room must exist, the requester must be an
\* admin of it, and an existing membership is returned as it is.
AddMemberCheck(groupId, requesterId, newMemberId) ==
    /\ groupId \in GroupIds
    /\ isAdmin(groupId, requesterId)
    /\ ~isMember(groupId, newMemberId)
    /\ groups' = [groups EXCEPT !.calls = @ \cup
                     {[op |-> "addMember", groupId |-> groupId, newMemberId |-> newMemberId]}]
    /\ lastEmit' = << >>
    /\ screen' = Deliver(lastEmit')
    /\ UNCHANGED <<members, sock, dict, recorder, refine, pushTokens, fanout, pushed, joined, msgs, nextId, clock, ticks, req, bcast, accepted, capacity>>

\* The new membership is saved.
AddMemberSave(call) ==
    /\ call.op = "addMember"
    /\ members' = members \cup {Member(call.groupId, call.newMemberId, "member")}
    /\ groups' = [groups EXCEPT !.calls = @ \ {call}]
    /\ lastEmit' = << >>
    /\ screen' = Deliver(lastEmit')
    /\ UNCHANGED <<sock, dict, recorder, refine, pushTokens, fanout, pushed, joined, msgs, nextId, clock, ticks, req, bcast, accepted, capacity>>

InitGroups == InitOf(MaxMsgs, [c \in Conns |-> Established(c)])

\* Both users open direct conversations, add members and remove members,
\* themselves included, while the calls' awaits complete in any order.
NextGroups ==
    \/ \E requesterId \in Users, targetUserId \in Users :
          FindOrCreateDmBegin(requesterId, targetUserId)
    \/ \E call \in groups.calls : \E membership \in members :
          FindOrCreateDmVisit(call, membership)
    \/ \E call \in groups.calls : FindOrCreateDmCreate(call)
    \/ \E call \in groups.calls : FindOrCreateDmMembers(call)
    \/ \E groupId \in GroupIds, requesterId \in Users, newMemberId \in Users :
          AddMemberCheck(groupId, requesterId, newMemberId)
    \/ \E call \in groups.calls : AddMemberSave(call)
    \/ \E groupId \in GroupIds, requesterId \in Users, targetUserId \in Users :
          RemoveMember(requesterId, groupId, targetUserId)

SpecGroups == InitGroups /\ [][NextGroups]_vars

\* Well-formed and malformed payloads of the three socket requests.
AudioTo(g) == SendPayload(S(g), S(TypeText("AUDIO")), Undefined, Recording, Undefined)
WithMimeType(p, v) == [p EXCEPT !.audioMimeType = v]
TooLong == Str("x", MaxEditLength + 1)

AudioSendInputs ==
    {AudioTo(R1), AudioTo(R2),
     WithMimeType(AudioTo(R1), S(Str("audio/mp4", 9))),
     [AudioTo(R1) EXCEPT !.rawContent = S(TextA), !.fileUrl = S(FileUrl)],
     SendPayload(S(R1), S(TypeText("AUDIO")), Undefined, Undefined, Undefined),
     SendPayload(S(R1), S(TypeText("AUDIO")), S(TextA), S(Blank), Undefined),
     SendPayload(S(Blank), S(TypeText("AUDIO")), Undefined, Recording, Undefined),
     WithMimeType(AudioTo(R1), A(<< >>))}

MalformedSendInputs ==
    {SendPayload(Undefined, S(TypeText("TEXT")), S(TextA), Undefined, Undefined),
     SendPayload(S(Blank), S(TypeText("TEXT")), S(TextA), Undefined, Undefined),
     SendPayload(S(R1), S(Str("VIDEO", 5)), S(TextA), Undefined, Undefined),
     SendPayload(S(R1), Undefined, S(TextA), Undefined, Undefined),
     SendPayload(S(R1), S(TypeText("TEXT")), S(Blank), Undefined, Undefined),
     SendPayload(S(R1), S(TypeText("TEXT")), Undefined, Undefined, Undefined),
     SendPayload(S(R1), S(TypeText("IMAGE")), S(TextA), Undefined, Undefined),
     SendPayload(S(R1), S(TypeText("DOCUMENT")), Undefined, Undefined, S(Blank))}

MalformedEditInputs ==
    {EditPayload(Undefined, S(Id(1)), S(TextB)),
     EditPayload(S(Blank), S(Id(1)), S(TextB)),
     EditPayload(S(R1), Undefined, S(TextB)),
     EditPayload(S(R1), S(Blank), S(TextB)),
     EditPayload(S(R1), S(Id(1)), Undefined),
     EditPayload(S(R1), S(Id(1)), S(Empty)),
     EditPayload(S(R1), S(Id(1)), S(Blank \o Blank)),
     EditPayload(S(R1), S(Id(1)), S(TooLong)),
     EditPayload(S(R1), S(Id(1)), S(Blank \o TooLong \o Blank))}

MalformedDeleteInputs ==
    {DeletePayload(Undefined, A(<<Id(1)>>)),
     DeletePayload(S(Blank), A(<<Id(1)>>)),
     DeletePayload(S(R1), A(<< >>)),
     DeletePayload(S(R1), Undefined),
     DeletePayload(S(R1), S(Id(1)))}

\* Requests of every shape, against a room with listeners and a stored
\* message.
NextValidate ==
    \/ \E c \in Conns : JoinRoomCheck(c, JoinTo(R1))
    \/ JoinSteps
    \/ \E c \in Conns, p \in {TextTo(R1)} \cup AudioSendInputs \cup MalformedSendInputs :
          SendMessageBegin(c, p)
    \/ SendSteps
    \/ \E c \in Conns, p \in MalformedEditInputs : EditBegin(c, p)
    \/ \E c \in Conns, p \in MalformedDeleteInputs : DeleteBegin(c, p)

SpecValidate == InitWith(MaxMsgsDeep) /\ [][NextValidate]_vars

\* Every writer of translations and confidence: creation over the socket
\* and the audio route, edit, and re-mediation of a stored message.
NextMediate ==
    \/ \E c \in Conns, p \in {TextTo(R1), ImageTo(R1)} : SendMessageBegin(c, p)
    \/ SendSteps
    \/ \E c \in Conns : ProcessAudioBegin(c, AudioBody(S(R1), Recording))
    \/ AudioSteps
    \/ \E c \in Conns : EditBegin(c, EditPayload(S(R1), S(Id(1)), S(Blank \o TextB)))
    \/ \E c \in Conns : EditLookupFail(c, EditPayload(S(R1), S(Id(1)), S(Blank \o TextB)))
    \/ EditSteps
    \/ \E c \in Conns : RetranslateBegin(c, Id(1))
    \/ RetranslateSteps

SpecMediate == InitWith(MaxMsgsDeep) /\ [][NextMediate]_vars

\* The whole pipeline: every handler that broadcasts, on both connections.
Next ==
    \/ \E c \in Conns : JoinRoomCheck(c, JoinTo(R1))
    \/ JoinSteps
    \/ \E c \in Conns : SendMessageBegin(c, TextTo(R1))
    \/ SendSteps
    \/ \E c \in Conns : ProcessAudioBegin(c, AudioBody(S(R1), Recording))
    \/ AudioSteps
    \/ \E c \in Conns : DeleteBegin(c, DeletePayload(S(R1), A(<<Id(1)>>)))
    \/ DeleteSteps
    \/ \E c \in Conns : EditBegin(c, EditPayload(S(R1), S(Id(1)), S(TextB)))
    \/ \E c \in Conns : EditLookupFail(c, EditPayload(S(R1), S(Id(1)), S(TextB)))
    \/ EditSteps

Spec == InitWith(MaxMsgsDeep) /\ [][Next]_vars
\* =============================================================== claims
\* A Membership(R, U) row exists.
HasMembership(g, u) == \E m \in members : m.groupId = g /\ m.userId = u

\* The events the last step emitted.
Emitted == {lastEmit[i] : i \in DOMAIN lastEmit}
\* An event named ev went out to the multicast group of some room.
RoomEvents(ev) == {e \in Emitted : e.ev = ev /\ e.room # None}

\* C1: a joinRoom(R) request from U's connection passes the check only if a
\* Membership(R, U) exists at that time; a request that passed is completed
\* by adding the connection to R's multicast group together with the
\* roomJoined acknowledgment naming R; a connection enters a multicast group
\* in no other way; and a step that reports the forbidden error adds no
\* connection to any group and leaves no join pending.
C1_JoinIffMember ==
    [][\A c \in Conns :
        /\ (req[c] = Idle /\ req'[c].op = "join")
              => HasMembership(req'[c].groupId, UserOf(c))
        /\ (req[c].op = "join" /\ req'[c] # req[c])
              => /\ joined' = joined \cup {<<c, req[c].groupId>>}
                 /\ lastEmit' = <<ToClient(c, "roomJoined", [joinedGroupId |-> req[c].groupId])>>
        /\ \A g \in RoomIds :
              (<<c, g>> \in joined' \ joined) => (req[c].op = "join" /\ req[c].groupId = g)
        /\ (lastEmit' = <<WsError(c, "Forbidden")>>)
              => (joined' = joined /\ req[c] = Idle /\ req'[c] = Idle
                  /\ \E g \in RoomIds : ~HasMembership(g, UserOf(c)))
      ]_vars

\* A member's connection is in its room's group while a non-member's request
\* has just been refused.
C1_Witness ==
    /\ <<"c2", R2>> \in joined
    /\ lastEmit = <<WsError("c1", "Forbidden")>>
    /\ ~HasMembership(R2, "u1")
\* Memberships are only ever removed, so a user holds a Membership at some
\* time exactly if it is one of the initial ones.
EverMember(g, u) == \E m \in InitialMembers : m.groupId = g /\ m.userId = u

\* C2: sendMessage requires Membership: no stored row and no newMessage
\* broadcast belongs to a room in which its sender never held a Membership.
C2_SendRequiresMembership ==
    /\ \A id \in DOMAIN msgs : EverMember(msgs[id].groupId, msgs[id].senderId)
    /\ \A e \in RoomEvents("newMessage") : EverMember(The(e.room), e.data.senderId)

\* The keys of the rows inserted so far.
Inserted == {Id(n) : n \in 1..(nextId - 1)}

\* C3: persist-before-broadcast.  In the state in which a step emits a
\* newMessage, messageEdited or messagesDeleted broadcast, the write it
\* reports is already in the store: the inserted row, the edited content
\* together with its refreshed translations, or the absence of the deleted
\* rows.
C3_PersistBeforeBroadcast ==
    [][\A i \in DOMAIN lastEmit' :
        LET e == lastEmit'[i]
        IN  /\ (e.ev = "newMessage" /\ e.room # None)
                  => /\ e.data.messageId \in DOMAIN msgs
                     /\ msgs[e.data.messageId].senderId = e.data.senderId
                     /\ msgs[e.data.messageId].groupId = The(e.room)
                     /\ msgs[e.data.messageId].translations = e.data.translations
            /\ (e.ev = "messageEdited")
                  => /\ e.data.messageId \in DOMAIN msgs
                     /\ msgs[e.data.messageId].rawContent = e.data.newContent
                     /\ msgs[e.data.messageId].isEdited
                     /\ msgs[e.data.messageId].translations = e.data.translations
                     /\ e.data.translations = Some([src |-> e.data.newContent])
            /\ (e.ev = "messagesDeleted")
                  => \A k \in DOMAIN e.data.messageIds :
                        /\ e.data.messageIds[k] \in Inserted
                        /\ e.data.messageIds[k] \notin DOMAIN msgs
      ]_vars

\* An edit has been broadcast and the store holds what the broadcast says.
C3_Witness ==
    /\ RoomEvents("messageEdited") # {}
    /\ Id(1) \in DOMAIN msgs
    /\ msgs[Id(1)].rawContent = TextB
    /\ msgs[Id(1)].translations = Some([src |-> TextB])

\* Number of newMessage broadcasts made for a row.
Broadcasts(id) == IF id \in DOMAIN bcast THEN bcast[id] ELSE 0

\* C4: every submission whose mediation succeeded inserts exactly one row
\* and is broadcast exactly once: the rows inserted are as many as the
\* submissions accepted (less those about to be saved), no row is lost, no
\* row is broadcast twice, a row not yet broadcast is held by exactly one
\* handler about to broadcast it, and a newMessage broadcast reaches every
\* other connection joined to the row's room.
C4_ExactlyOnce ==
    /\ accepted = Cardinality(Inserted)
                  + Cardinality({c \in Conns : req[c].op \in {"send", "audio"}
                                               /\ req[c].pc = "save"})
    /\ DOMAIN msgs = Inserted
    /\ \A id \in Inserted :
          /\ Broadcasts(id) <= 1
          /\ Cardinality({c \in Conns : req[c].op \in {"send", "audio"}
                                        /\ req[c].pc = "broadcast"
                                        /\ req[c].messageId = id})
                = 1 - Broadcasts(id)
    /\ \A e \in RoomEvents("newMessage") :
          LET m == msgs[e.data.messageId]
          IN  {c \in Conns : <<c, m.groupId>> \in joined /\ UserOf(c) # m.senderId}
                 \subseteq e.to

\* Two members of r1 submitted concurrently; both rows are stored, one has
\* been delivered to the other member and the other is about to be broadcast.
C4_Witness ==
    /\ Cardinality(Inserted) = 2
    /\ \A id \in Inserted : msgs[id].groupId = R1
    /\ {msgs[id].senderId : id \in Inserted} = {"u1", "u2"}
    /\ \E e \in RoomEvents("newMessage") : e.to = {"c1", "c2"}
    /\ \E c \in Conns : req[c].op = "send" /\ req[c].pc = "broadcast"

\* The rows a step removes from the store.
Removed == DOMAIN msgs \ DOMAIN msgs'
DeleteFailedTo(c) == {e \in Emitted : e.ev = "deleteFailed" /\ e.to = {c}}

\* C5: delete is all-or-nothing.  When the store resolves the id list L of
\* user U and some id names no row or a row U did not send, the request ends
\* with a not-found or not-owner reason and nothing is deleted.  Rows leave
\* the store only in a step of a delete request whose list was resolved in
\* full: every row removed is in L and was sent by U, and after the step no
\* row of L remains.
C5_DeleteAllOrNothing ==
    [][/\ \A c \in Conns :
            (req[c].op = "delete" /\ req[c].pc = "find" /\ req'[c] # req[c]
             /\ \E k \in DOMAIN req[c].messageIds :
                   \/ req[c].messageIds[k] \notin DOMAIN msgs
                   \/ msgs[req[c].messageIds[k]].senderId # UserOf(c))
            => /\ msgs' = msgs
               /\ req'[c] = Idle
               /\ \E e \in DeleteFailedTo(c)' :
                     e.data.reason \in {"Message not found",
                                        "You can only delete your own messages"}
       /\ Removed # {}
            => \E c \in Conns :
                  /\ req[c].op = "delete" /\ req[c].pc = "remove"
                  /\ Removed \subseteq Range(req[c].messageIds)
                  /\ \A id \in Removed : msgs[id].senderId = UserOf(c)
                  /\ Range(req[c].messageIds) \cap DOMAIN msgs' = {}
       /\ (\E c \in Conns : DeleteFailedTo(c)' # {}) => msgs' = msgs
      ]_vars

\* A delete naming a row of another sender was refused and both rows are
\* still stored.
C5_Witness ==
    /\ \E e \in DeleteFailedTo("c1") :
          e.data.reason = "You can only delete your own messages"
    /\ DOMAIN msgs = {Id(1), Id(2)}
    /\ {msgs[Id(1)].senderId, msgs[Id(2)].senderId} = {"u1", "u2"}

C7_ChangeRequiresMembership ==
    [][\A id \in DOMAIN msgs :
        (id \notin DOMAIN msgs' \/ msgs'[id] # msgs[id])
        => \E c \in Conns :
              /\ req[c].op \in {"edit", "delete"}
              /\ req'[c] # req[c]
              /\ HasMembership(msgs[id].groupId, UserOf(c))
      ]_vars

\* Minutes since the row was created.
Age(m) == clock - m.createdAt
EditFailedTo(c) == {e \in Emitted : e.ev = "editFailed" /\ e.to = {c}}
WindowReason == "Messages can only be edited within 15 minutes of sending"

\* C8: when the Message Store evaluates an edit of a message created more
\* than 15 minutes ago, the request ends with editFailed, the row is left as
\* it was, and the reason is the edit-window reason whenever the requester
\* is the sender of a TEXT message (the checks the store makes first).
C8_EditWindow ==
    [][\A c \in Conns :
        (req[c].op = "edit" /\ req[c].pc = "load" /\ req'[c] # req[c]
         /\ req[c].messageId \in DOMAIN msgs
         /\ Age(msgs[req[c].messageId]) > EditWindowMinutes)
        => /\ msgs' = msgs
           /\ req'[c] = Idle
           /\ EditFailedTo(c)' # {}
           /\ (msgs[req[c].messageId].senderId = UserOf(c)
               /\ msgs[req[c].messageId].contentType = "TEXT")
              => \A e \in EditFailedTo(c)' : e.data.reason = WindowReason
      ]_vars

\* The sender's edit of a 30 minute old message was refused for the edit
\* window and the row is as it was sent.
C8_Witness ==
    /\ \E e \in EditFailedTo("c1") : e.data.reason = WindowReason
    /\ Id(1) \in DOMAIN msgs
    /\ msgs[Id(1)].senderId = "u1"
    /\ Age(msgs[Id(1)]) > EditWindowMinutes
    /\ msgs[Id(1)].rawContent = TextA
    /\ ~msgs[Id(1)].isEdited
    /\ msgs[Id(1)].translations = Some([src |-> TextA])

\* C9: the raw content of a stored row changes only in a step of an edit
\* request made by the row's sender, and only if the row is TEXT; when the
\* store evaluates an edit by another user or of a row that is not TEXT, the
\* row is left as it was and the request ends with editFailed carrying the
\* not-owner or the not-text reason.
C9_EditOwnText ==
    [][/\ \A id \in DOMAIN msgs \cap DOMAIN msgs' :
            msgs'[id].rawContent # msgs[id].rawContent
            => /\ msgs[id].contentType = "TEXT"
               /\ \E c \in Conns :
                     /\ req[c].op = "edit" /\ req'[c] # req[c]
                     /\ req[c].messageId = id
                     /\ UserOf(c) = msgs[id].senderId
       /\ \A c \in Conns :
            (req[c].op = "edit" /\ req[c].pc = "load" /\ req'[c] # req[c]
             /\ req[c].messageId \in DOMAIN msgs)
            => LET m == msgs[req[c].messageId]
               IN  /\ m.senderId # UserOf(c)
                      => /\ msgs' = msgs /\ req'[c] = Idle
                         /\ \E e \in EditFailedTo(c)' :
                               e.data.reason = "You can only edit your own messages"
                   /\ (m.senderId = UserOf(c) /\ m.contentType # "TEXT")
                      => /\ msgs' = msgs /\ req'[c] = Idle
                         /\ \E e \in EditFailedTo(c)' :
                               e.data.reason = "Only text messages can be edited"
      ]_vars

\* Another member's edit of u1's message was refused and the row is as u1
\* sent it.
C9_Witness ==
    /\ \E e \in EditFailedTo("c2") : e.data.reason = "You can only edit your own messages"
    /\ Id(1) \in DOMAIN msgs
    /\ msgs[Id(1)].senderId = "u1"
    /\ msgs[Id(1)].rawContent = TextA
    /\ ~msgs[Id(1)].isEdited

\* C10: edit is all-or-nothing.  When an edit request of the message's own
\* sender ends with editFailed, the stored row (raw content, isEdited,
\* translations, confidence) is what it was when the request arrived.
C10_EditAllOrNothing ==
    [][\A c \in Conns :
        (req[c].op = "edit" /\ EditFailedTo(c)' # {}
         /\ req[c].before # None /\ The(req[c].before).senderId = UserOf(c))
        => req[c].before = IF req[c].messageId \in DOMAIN msgs'
                           THEN Some(msgs'[req[c].messageId]) ELSE None
      ]_vars
\* C11: every editMessage request ends in exactly one of two ways: the step
\* that ends it either broadcasts messageEdited to the room and emits no
\* editFailed, or emits editFailed carrying the message id and a reason to
\* the requester alone and sends nothing to a room.
C11_EditOutcome ==
    [][\A c \in Conns :
        (req[c].op = "edit" /\ req'[c] = Idle)
        => \/ /\ lastEmit' = <<ToRoom(req[c].groupId, "messageEdited", lastEmit'[1].data)>>
              /\ lastEmit'[1].data.messageId = req[c].messageId
           \/ /\ Len(lastEmit') = 1
              /\ lastEmit'[1].ev = "editFailed"
              /\ lastEmit'[1].to = {c}
              /\ lastEmit'[1].room = None
              /\ lastEmit'[1].data.messageId = S(req[c].messageId)
      ]_vars
NoChange(c) == {e \in EditFailedTo(c) : e.data.reason = "No changes detected"}

\* C12: a no-op edit performs no write.  When the handler has looked the
\* message up, a request whose trimmed content equals the stored raw content
\* is never taken further (no request in flight carries the content found
\* in the store), and the step that rejects it with editFailed "No changes
\* detected" leaves every row and every broadcast as they were.
C12_NoOpEdit ==
    [][/\ \A c \in Conns :
            (req'[c].op = "edit" /\ req'[c].before # None)
            => The(req'[c].before).rawContent # req'[c].trimmed
       /\ \A c \in Conns :
            NoChange(c)' # {}
            => /\ msgs' = msgs
               /\ req[c] = Idle /\ req'[c] = Idle
               /\ Len(lastEmit') = 1
               /\ \E id \in DOMAIN msgs : NoChange(c)' = {EditFailed(c, S(id), "No changes detected")}
      ]_vars

\* After a successful edit to "b" the sender's further edit to the same
\* content was rejected and the row is as the first edit left it.
C12_Witness ==
    /\ NoChange("c1") # {}
    /\ Id(1) \in DOMAIN msgs
    /\ msgs[Id(1)].senderId = "u1"
    /\ msgs[Id(1)].rawContent = TextB
    /\ msgs[Id(1)].isEdited
    /\ msgs[Id(1)].translations = Some([src |-> TextB])
    /\ msgs[Id(1)].confidenceScore # None
C14_TranslationsWithConfidence ==
    \A id \in DOMAIN msgs :
        (msgs[id].translations = None) <=> (msgs[id].confidenceScore = None)

\* An edit has cleared both fields of the row while a re-mediation of the
\* same row is about to write them.
C14_Witness ==
    /\ Id(1) \in DOMAIN msgs
    /\ msgs[Id(1)].isEdited
    /\ msgs[Id(1)].translations = None
    /\ msgs[Id(1)].confidenceScore = None
    /\ \E c \in Conns : req[c].op = "retranslate" /\ req[c].pc = "update"

\* C15: no stored AUDIO row carries a confidence score that implies
\* inaudibility (a score of 5 or less).
C15_NoInaudibleAudio ==
    \A id \in DOMAIN msgs :
        (msgs[id].contentType = "AUDIO" /\ msgs[id].confidenceScore # None)
        => The(msgs[id].confidenceScore) > InaudibleMaxScore
\* The mediation result makes the recording audible: a score above 5 and a
\* transcription with something other than white space in it.
Audible(result) ==
    /\ result.confidenceScore > InaudibleMaxScore
    /\ result.transcription # None
    /\ \E i \in DOMAIN The(result.transcription) :
          ~IsSpace(The(result.transcription)[i]) /\ The(result.transcription)[i][2] > 0

NotAudibleTo(c) == {e \in Emitted : e = Http(c, 422, "audioNotAudible")}

AudioRefused(c) ==
    /\ msgs' = msgs /\ nextId' = nextId /\ req' = req /\ bcast' = bcast
    /\ \A i \in DOMAIN lastEmit' : lastEmit'[i].to = {c} /\ lastEmit'[i].room = None
UpgradeNotice(c) ==
    /\ Len(lastEmit') >= 1
    /\ lastEmit'[1].ev = "messageFailed"
    /\ lastEmit'[1].to = {c}

RefusedTo(c, events) ==
    /\ msgs' = msgs /\ nextId' = nextId /\ req' = req /\ bcast' = bcast
    /\ members' = members /\ joined' = joined
    /\ Len(lastEmit') = 1
    /\ lastEmit'[1].to = {c} /\ lastEmit'[1].room = None
    /\ lastEmit'[1].ev \in events

\* C18: a sendMessage, editMessage or deleteMessages request with a malformed
\* payload (room id missing or blank, content type unknown or missing, TEXT
\* with blank or missing content, IMAGE/DOCUMENT without a file reference,
\* id list empty or not a list, edit content missing, empty after trimming
\* or longer than 2000 characters after trimming) writes nothing, reaches no
\* room and is answered with a single event to the caller only.
C18_ValidationNoSideEffect ==
    [][\A c \in Conns :
          /\ \A p \in MalformedSendInputs :
                SendMessageBegin(c, p) => RefusedTo(c, {"error"})
          /\ \A p \in MalformedEditInputs :
                EditBegin(c, p) => RefusedTo(c, {"editFailed"})
          /\ \A p \in MalformedDeleteInputs :
                DeleteBegin(c, p) => RefusedTo(c, {"deleteFailed"})
      ]_vars
\* An over-long edit was refused to its sender while the room had a stored
\* message and listeners.
C18_Witness ==
    /\ \E c \in Conns :
          /\ lastEmit = <<EditFailed(c, S(Id(1)), "Message is too long")>>
          /\ <<c, R1>> \in joined
          /\ \E d \in Conns \ {c} : req[d].op = "send"
    /\ Id(1) \in DOMAIN msgs

\* The step started the notification fan-out of message id.
FanoutStarted(id) == id \notin DOMAIN fanout /\ id \in DOMAIN fanout'
\* The step was one of a notification fan-out already under way.
FanoutStepped == fanout' # fanout /\ DOMAIN fanout' \subseteq DOMAIN fanout

\* C19: notification fan-out never blocks or fails the send.  The fan-out of
\* a message starts in the step that broadcasts newMessage for its stored
\* row and ends the sender's handler; that step is taken whatever fan-outs
\* are in flight; and no later step of a fan-out (lookup failure, provider
\* error or timeout, stale-address report) changes a row, a handler or the
\* broadcast history, or emits anything to any connection.
C19_FanoutBestEffort ==
    [][/\ \A id \in MsgIds :
            FanoutStarted(id)
            => /\ id \in DOMAIN msgs'
               /\ msgs' = msgs
               /\ \E e \in {lastEmit'[i] : i \in DOMAIN lastEmit'} :
                     e.ev = "newMessage" /\ e.room # None /\ e.data.messageId = id
               /\ \E c \in Conns :
                     /\ req[c].op \in {"send", "audio"} /\ req[c].pc = "broadcast"
                     /\ req[c].messageId = id
                     /\ req'[c] = Idle
       /\ FanoutStepped
            => /\ msgs' = msgs /\ req' = req /\ bcast' = bcast
               /\ members' = members /\ joined' = joined
               /\ lastEmit' = << >>
       /\ \A c \in Conns :
            (req[c].op = "send" /\ req[c].pc = "broadcast") => ENABLED SendBroadcast(c)
      ]_vars
\* The provider failed on the batch of a message that is stored and was
\* broadcast once, and every handler has ended.
C19_Witness ==
    \E b \in pushed :
        /\ b.outcome = "failed"
        /\ b.messageId \in DOMAIN msgs
        /\ b.messageId \in DOMAIN bcast /\ bcast[b.messageId] = 1
        /\ b.messageId \notin DOMAIN fanout
        /\ \A c \in Conns : req[c] = Idle

\* The members a push is meant for, from what the fan-out read: not the
\* sender, without a socket in the room, with a registered address.
Eligible(task, online) ==
    {m \in task.members :
        m.userId # task.senderId /\ m.userId \notin online /\ m.expoPushToken # None}
\* Those of them whose address is one the push provider issues.
Reachable(task, online) ==
    {m \in Eligible(task, online) :
        SubSeq(The(m.expoPushToken), 1, 1) = Str("ExponentPushToken[", 18)}
\* The users with a socket in the room of the fan-out of message id.
InRoomOf(id) == {UserOf(c) : c \in {x \in Conns : <<x, fanout[id].groupId>> \in joined}}
\* The batches posted for message id that carry the member's address.
BatchesWith(batches, id, m) ==
    {b \in batches : b.messageId = id /\ <<m.userId, The(m.expoPushToken)>> \in b.to}
\* The fan-out of message id read the memberships and addresses as they are.
ReadsMembers(id) ==
    FanoutMembers(id)
    => fanout'[id].members =
         {[userId |-> m.userId, expoPushToken |-> pushTokens[m.userId]] :
             m \in {x \in members : x.groupId = fanout[id].groupId}}
\* The fan-out of message id read the sockets of the room as they are.
ReadsSockets(id) ==
    (FanoutSockets(id) /\ id \in DOMAIN fanout') => fanout'[id].online = InRoomOf(id)
\* The fan-out of message id ended after its last group of recipients.
FanoutCompleted(id) ==
    id \in DOMAIN fanout /\ id \notin DOMAIN fanout' /\ fanout[id].pc = "send"

Unverified(c) ==
    /\ sock[c].state # "new"
    /\ \/ NoToken(extractToken(sock[c].handshake))
       \/ verifyAsync(The(extractToken(sock[c].handshake))) = None

\* C21: a socket whose handshake carries no credential, or a credential
\* that fails verification, never has an identity attached; without a
\* credential it is never connected, and with a failing one it is connected
\* only while the verification is pending; none of its requests takes
\* effect: it has no handler in flight, is in no room and has written no row.
C21_UnverifiedNoEffect ==
    \A c \in Conns :
        Unverified(c)
        => /\ sock[c].user = None
           /\ \/ sock[c].state = "closed"
              \/ sock[c].state = "verifying" /\ ~NoToken(extractToken(sock[c].handshake))
           /\ req[c] = Idle
           /\ \A g \in RoomIds : <<c, g>> \notin joined
           /\ \A id \in DOMAIN msgs : msgs[id].senderId # UserOf(c)
           /\ \A id \in DOMAIN fanout : fanout[id].senderId # UserOf(c)
\* A socket with a forged credential had a request refused while its
\* verification was pending, and the other socket's message is stored.
C21_Witness ==
    \E c \in Conns :
        /\ Unverified(c)
        /\ sock[c].state = "verifying"
        /\ lastEmit = <<WsError(c, "Invalid token")>>
        /\ msgs # << >>

\* ------------------------------------------------------------------ C22
\* The positions of the local user's pending placeholders in a list (the
\* list is newest first: a higher position is an older entry).
PendingAt(list) == {i \in 1..Len(list) : IsPending(list[i])}
OldestPending(list) == CHOOSE i \in PendingAt(list) : \A j \in PendingAt(list) : i >= j
NewestPending(list) == CHOOSE i \in PendingAt(list) : \A j \in PendingAt(list) : i <= j

\* C22: when the newMessage listener runs for an announcement whose sender is
\* the local user and a pending placeholder of that user is listed, the
\* authoritative message replaces the oldest such placeholder and nothing
\* else changes; for a peer's announcement, or with no placeholder, the
\* message is prepended as a new entry.
C22_ReplacesOldestPending ==
    [][HandleNewMessage =>
        LET prev == screen.messages
            finalMessage == serverEventToChatMessage(Evt)
        IN  IF Evt.senderId = LocalUser /\ PendingAt(prev) # {}
            THEN screen'.messages = [prev EXCEPT ![OldestPending(prev)] = finalMessage]
            ELSE screen'.messages = <<finalMessage>> \o prev]_vars

\* ------------------------------------------------------------------ C23
\* C23: when the messageFailed listener runs, exactly one entry leaves the
\* list, a pending placeholder of the local user with no more recent one
\* before it, and every other entry stays as it was, in the same order; with
\* no pending placeholder the list is unchanged.  The modes and the rollback
\* snapshot are untouched.
C23_FailedRemovesNewestPending ==
    [][HandleMessageFailed =>
        LET prev == screen.messages
            next == screen'.messages
        IN  /\ IF PendingAt(prev) = {}
               THEN next = prev
               ELSE /\ Len(next) = Len(prev) - 1
                    /\ \E k \in PendingAt(prev) :
                          /\ \A j \in 1..(k - 1) : ~IsPending(prev[j]) /\ next[j] = prev[j]
                          /\ \A j \in (k + 1)..Len(prev) : next[j - 1] = prev[j]
            /\ screen'.selectionMode = screen.selectionMode
            /\ screen'.selectedIds = screen.selectedIds
            /\ screen'.editingMessageId = screen.editingMessageId
            /\ screen'.editOriginalRef = screen.editOriginalRef]_vars

\* Two messages were submitted, the failure notice was handled, and the
\* older placeholder alone is left.
C23_Witness ==
    /\ screen.uuids = 2
    /\ Len(screen.messages) = 1
    /\ screen.messages[1].id = Uuid(1)
    /\ IsPending(screen.messages[1])
    /\ screen.inbox = << >>

\* ------------------------------------------------------------------ C24
\* Nothing of the local user's submissions is in flight: the gateway has
\* taken every request, no handler runs for the socket and every event
\* emitted to it has been handled.
Quiescent ==
    /\ screen.outbox = << >>
    /\ req[LocalConn] = Idle
    /\ screen.inbox = << >>

\* C24: every optimistic placeholder is resolved, also when the gateway fails
\* the submission: once nothing of the local user's submissions is in flight
\* any more (no event that could resolve a placeholder will follow), no
\* placeholder is pending.
C24_PlaceholderResolved == Quiescent => PendingAt(screen.messages) = {}

\* The gateway emits messageFailed to the screen for none of its
\* submissions.
C24_NoFailureNotice ==
    \A i \in 1..Len(screen.inbox) : screen.inbox[i].ev # "messageFailed"

\* ------------------------------------------------------------------ C25
\* The message id as it was before its oldest unanswered edit, if the
\* screen has emitted one.
Unanswered(id) ==
    LET hits == {i \in 1..Len(screen.sentEdits) : screen.sentEdits[i].id = id}
    IN  IF hits = {} THEN None
        ELSE Some(screen.sentEdits[CHOOSE i \in hits : \A j \in hits : i <= j])

\* C25: when the editFailed listener runs for a message M whose edit the
\* screen has confirmed and the server has not answered before, M's content,
\* translations and confidence are afterwards exactly those M had when the
\* edit was confirmed, whatever the user did on the screen in between.
C25_EditRollback ==
    [][HandleEditFailed =>
        \A id \in ListedIds(screen.messages) :
            (Evt.messageId = S(id) /\ Unanswered(id) # None) =>
                \A m \in FindMessage(screen'.messages, id) :
                    Snapshot(m) = Snapshot(The(Unanswered(id)))]_vars

\* ------------------------------------------------------------------ C26
\* C26: selection mode and edit mode are mutually exclusive: in no reachable
\* state of the screen is selectionMode true while an editingMessageId is
\* set.
C26_ModesExclusive == ~(screen.selectionMode /\ screen.editingMessageId # None)

\* ------------------------------------------------------------------ C27
\* C27: a recording whose sampled level never exceeds the silence threshold
\* is not passed to onSendMessage: every recording that was passed on has a
\* sample above the threshold.
C27_SilentNeverSent ==
    \A k \in recorder.sent : \E l \in recorder.sampled[k] : l > SilenceThresholdDb

\* ------------------------------------------------------------------ C28
\* C28: a recording the user cancelled is never passed to onSendMessage, and
\* a cancel discards no other recording: every recording that a stop handler
\* dropped because of the cancel flag is one the user cancelled.
C28_CancelDiscardsOnlyCancelled ==
    /\ \A k \in recorder.sent : k \notin recorder.cancelled
    /\ \A k \in recorder.flagged : k \in recorder.cancelled

\* ------------------------------------------------------------------ C29
\* The requests whose outcome the modal's state holds.
Shown == refine.refinedText \cup refine.error

\* C29: a refine request that was superseded by a newer one, or whose modal
\* was closed while it was in flight, never sets what the modal shows: the
\* refined text or error on display belongs to the most recently issued
\* request, and that request's modal has not been closed.
C29_DisplayedIsCurrent ==
    refine.visible => \A id \in Shown : id = refine.issued /\ id \notin refine.closed

\* The part about superseded requests alone (it holds).
C29_SupersededIgnored == \A id \in Shown : id = refine.issued

\* ------------------------------------------------------------------ C30
\* A write of the user's dictionary has reached the store and has not yet
\* invalidated the cache.
WritePending(userId) ==
    \E call \in dict.calls : call.op \in WriteOps /\ call.userId = userId /\ call.phase = "saved"

\* C30: once every write of a user's dictionary has completed, a
\* getUserDictionary call for that user that is answered from the cache
\* returns the dictionary compiled from the entries the store holds, also
\* when another getUserDictionary call was in flight during a write.
C30_NoStaleDictionary ==
    \A ret \in dict.returned :
        (ret.hit /\ ~WritePending(ret.userId))
            => ret.value = compileDictionary(findEntries(dict.rows, ret.userId))

\* ------------------------------------------------------------------ C31
\* The direct conversations that hold a membership of both users.
DmsOf(a, b) == {g \in groups.rows : ~g.isGroup /\ isMember(g.id, a) /\ isMember(g.id, b)}

\* C31: at most one direct-conversation room exists per unordered pair of
\* users, also when find-or-create-DM calls for the pair run concurrently.
C31_OneDmPerPair ==
    \A a \in Users, b \in Users : a # b => Cardinality(DmsOf(a, b)) <= 1

\* ------------------------------------------------------------------ C32
\* group_members rows of a room.
MembersOf(groupId) == {m \in members : m.groupId = groupId}

\* A findOrCreateDm call has saved the room and not yet its memberships.
BeingCreated(groupId) == \E call \in groups.calls : call.op = "findOrCreateDm" /\ groupId \in call.dm

\* C32: every room with isGroup = false, once the call that created it has
\* returned, has exactly two members.
C32_DmHasTwoMembers ==
    \A g \in groups.rows :
        (~g.isGroup /\ ~BeingCreated(g.id)) => Cardinality(MembersOf(g.id)) = 2

\* ------------------------------------------------------------------ C33
\* No editMessage and no retranslate request is in flight.
NoMediationInFlight == \A c \in Conns : req[c].op \notin {"edit", "retranslate"}

\* C33: whenever no edit or re-mediation is in flight, the stored
\* translations of a text message, when present, were derived from its
\* stored raw content.
C33_TranslationsMatchContent ==
    NoMediationInFlight =>
        \A i \in DOMAIN msgs :
            (msgs[i].contentType = "TEXT" /\ msgs[i].translations # None)
                => The(msgs[i].translations).src = msgs[i].rawContent

\* ------------------------------------------------------------------ C34
\* C34: the messagesDeleted broadcast of a deleteMessages request goes to
\* the room of every row the request removed, and a messageEdited broadcast
\* goes to the room the edited message belongs to: a broadcast to a room
\* never names a message of another room.
C34_BroadcastToMessageRoom ==
    [][/\ \A c \in Conns :
            (req[c].op = "delete" /\ req[c].pc = "remove" /\ req'[c] # req[c])
                => \A id \in DOMAIN msgs \ DOMAIN msgs' :
                       msgs[id].groupId = req[c].groupId
       /\ \A i \in DOMAIN lastEmit' :
            (/\ lastEmit'[i].ev = "messageEdited"
             /\ lastEmit'[i].room # None
             /\ lastEmit'[i].data.messageId \in DOMAIN msgs')
                => msgs'[lastEmit'[i].data.messageId].groupId \in lastEmit'[i].room
      ]_vars

\* ------------------------------------------------------------------ C35
\* C35: every connection in a room's multicast group belongs to a user who
\* holds a Membership in that room.
C35_JoinedAreMembers ==
    \A c \in Conns, g \in RoomIds : <<c, g>> \in joined => HasMembership(g, UserOf(c))

\* ------------------------------------------------------------------ C36
\* The history response and every event delivered so far are processed.
HistorySettled == screen.history.pc = "done" /\ screen.inbox = << >>
\* No two entries of the list share a message id.
NoSharedId(list) == \A i, j \in 1..Len(list) : list[i].id = list[j].id => i = j

\* C36: the history load drops no message that a newMessage broadcast had
\* put on the list, and once the history response and the broadcasts are
\* processed no two entries of the list share a message id.
C36_HistoryMergesBroadcasts ==
    [][/\ HistoryLoad => ListedIds(screen.messages) \subseteq ListedIds(screen'.messages)
       /\ HistorySettled' => NoSharedId(screen'.messages)
      ]_vars

\* The history load alone.
C36_NothingDropped ==
    [][HistoryLoad => ListedIds(screen.messages) \subseteq ListedIds(screen'.messages)]_vars

\* The shared ids alone.
C36_NoDuplicate == HistorySettled => NoSharedId(screen.messages)

\* ------------------------------------------------------------------ C37
\* The screen of the local user against the gateway while the user sends,
\* selects and deletes messages and, on another device, leaves the room it
\* has joined.
NextRemoval ==
    \/ \E payload \in NextRequest("joinRoom") : JoinRoomCheck(LocalConn, payload)
    \/ JoinSteps
    \/ \E payload \in NextRequest("sendMessage") : SendMessageBegin(LocalConn, payload)
    \/ SendSteps
    \/ \E payload \in NextRequest("deleteMessages") : DeleteBegin(LocalConn, payload)
    \/ DeleteSteps
    \/ LocalConn \in SocketsIn(R1) /\ RemoveMember(LocalUser, R1, LocalUser)
    \/ \E text \in {TextA, TextB} : HandleSendMessage(text)
    \/ HandleNewMessage
    \/ HandleMessagesDeleted
    \/ HandleDeleteFailed
    \/ \E id \in {Id(1), Id(2)} : HandleLongPress(id)
    \/ \E id \in {Id(1), Id(2)} : HandleToggleSelect(id)
    \/ ExitSelectionMode
    \/ HandleDelete
    \/ DropUnlistened

SpecRemoval == InitScreen /\ [][NextRemoval]_vars

\* The rows the server stores for the room the screen shows.
StoredIds(g) == {id \in DOMAIN msgs : msgs[id].groupId = g}

\* C37: after a delete the server refused (deleteFailed), the local list
\* again contains every message the request removed, so that the local view
\* equals the server's: once nothing of the local user's requests is in
\* flight, every message the server stores for the room is on the list.
C37_FailedDeleteRestored == Quiescent => StoredIds(R1) \subseteq ListedIds(screen.messages)

\* The first half of the claim: confirming the delete removes the selected
\* messages from the list at once.
C37_RemovedAtOnce ==
    [][HandleDelete => ListedIds(screen'.messages) = ListedIds(screen.messages) \ screen.selectedIds]_vars

\* ------------------------------------------------------------------ C38
\* The editFailed listener is about to roll message id back: the event names
\* it, the screen has emitted an edit of it that the server has not answered,
\* and the rollback snapshot is the one of that message.
RollsBack(id) ==
    /\ Evt.messageId = S(id)
    /\ Unanswered(id) # None
    /\ screen.editOriginalRef # None
    /\ The(screen.editOriginalRef).id = id

\* C38: after the edit of message M is rejected (editFailed) and rolled back,
\* M's isEdited flag and its retrying indicator are those M had before the
\* edit was confirmed.
C38_FlagsRestored ==
    [][HandleEditFailed =>
        \A id \in ListedIds(screen.messages) :
            RollsBack(id) =>
                \A m \in FindMessage(screen'.messages, id) :
                    /\ m.isEdited = The(Unanswered(id)).isEdited
                    /\ m.isRetrying = The(Unanswered(id)).isRetrying]_vars

\* The retrying indicator alone.
C38_RetryingRestored ==
    [][HandleEditFailed =>
        \A id \in ListedIds(screen.messages) :
            RollsBack(id) =>
                \A m \in FindMessage(screen'.messages, id) :
                    m.isRetrying = The(Unanswered(id)).isRetrying]_vars

\* ------------------------------------------------------------------ C39
\* ChatGateway.handleEditMessage run without interruption against the rows
\* `table`: the reason of the editFailed it emits to connection c, or "ok"
\* when the edit is accepted.
editReason(table, c, payload) ==
    LET trimmed == Trim(payload.newContent.val)
        messageId == payload.messageId.val
        existing == IF messageId \in DOMAIN table THEN Some(table[messageId]) ELSE None
    IN  IF \/ NotNonBlankString(payload.groupId)
           \/ NotNonBlankString(payload.messageId)
           \/ ~IsString(payload.newContent)
        THEN "Invalid payload"
        ELSE IF StrLen(trimmed) = 0 THEN "Message cannot be empty"
        ELSE IF StrLen(trimmed) > MaxEditLength THEN "Message is too long"
        ELSE IF existing # None /\ The(existing).rawContent = trimmed
        THEN "No changes detected"
        ELSE IF ~isMember(payload.groupId.val, UserOf(c)) THEN "Forbidden"
        ELSE editCheck(existing, UserOf(c))

\* The rows with the raw content of row id replaced.
WithRawContent(table, id, content) ==
    [i \in DOMAIN table |-> IF i = id THEN [table[i] EXCEPT !.rawContent = content] ELSE table[i]]

\* The requester on connection c is not a member of the room the request
\* names, or is not the sender of the stored message id.
Outsider(c, payload, id) ==
    \/ ~isMember(payload.groupId.val, UserOf(c))
    \/ msgs[id].senderId # UserOf(c)

\* C39: what a requester who is not a member of the room, or not the sender
\* of the target message, gets back does not depend on the message's stored
\* content: against two stores that differ only in that message's raw
\* content the same editMessage request is answered with the same reason.
C39_ReasonHidesContent ==
    \A c \in Conns, payload \in EditInputs, id \in DOMAIN msgs, content \in {TextA, TextB} :
        (payload.messageId = S(id) /\ Outsider(c, payload, id)) =>
            editReason(msgs, c, payload) = editReason(WithRawContent(msgs, id, content), c, payload)

\* The reason the handler emits when it begins is the one computed above.
C39_ReasonAsEmitted ==
    [][\A c \in Conns, payload \in EditInputs :
          (EditBegin(c, payload) /\ lastEmit' # << >>) =>
              lastEmit'[1].data.reason = editReason(msgs, c, payload)]_vars

\* ------------------------------------------------------------------ C40
\* The most recently issued refine request has not completed.
LatestPending == \E r \in refine.requests : r.id = refine.issued

\* C40: the loading indicator of the refine modal is on exactly while the
\* most recently issued request is unresolved; the completion of an older
\* request that a newer one superseded does not switch it off.
C40_LoadingWhileLatestPending == refine.isLoading <=> LatestPending

\* The superseded request alone: its completion leaves the indicator on
\* while the newer request is in flight.
C40_SupersededKeepsLoading ==
    [][\A r \in refine.requests :
          (RequestCancelled(r) /\ r.id # refine.issued /\ LatestPending) => refine'.isLoading]_vars

====
